---- MODULE Spec2Model ----
(***************************************************************************)
(* A model of the path-guided graph walker (src/common/graph_walker.c),    *)
(* of the clean command (src/commands/ctx_clean.c) with the hash table it  *)
(* loads and cleans, and of the packed path buffers exercised by           *)
(* src/tests/packed_path_tests.c.                                          *)
(*                                                                         *)
(* The walker is one GraphWalker over a fixed, read-only coloured de       *)
(* Bruijn graph and path store.  C arrays are functions on 0..n-1, a       *)
(* FollowPath* is the index of the record in allpaths, and the bases       *)
(* pointer of record i is the offset i * max_path_len into data.           *)
(***************************************************************************)
EXTENDS Integers, Sequences, FiniteSets, TLC

VARIABLES wlk, pc, nops, ret, mid, cln

vars == <<wlk, pc, nops, ret, mid, cln>>

(***************************************************************************)
(* Bounds of the exploration.                                              *)
(***************************************************************************)
\* the pool is not grown beyond this many FollowPath records
MaxNumPaths == 4
\* graph_walker_add_counter_paths is called with at most this many predecessors
MaxPrev == 1
\* a run makes at most this many calls that change the walker
MaxOps == 3

(***************************************************************************)
(* Nucleotides, k-mers, orientations.                                      *)
(***************************************************************************)
Nucleotide == 0..3
FORWARD == 0
REVERSE == 1
Orientation == {FORWARD, REVERSE}
\* content of memory that was never written (malloc / realloc growth)
Junk == -1
\* a pointer slot that is uninitialised or dangling
Garbage == -1
\* end of a path chain
PATH_NULL == 255

binary_nuc_complement(n) == 3 - n

Reverse(s) == [i \in 1..Len(s) |-> s[Len(s) + 1 - i]]

binary_kmer_reverse_complement(bk) ==
  Reverse([i \in 1..Len(bk) |-> binary_nuc_complement(bk[i])])

binary_kmer_last_nuc(bk) == bk[Len(bk)]

binary_kmer_left_shift_add(bk, nuc) == Append(Tail(bk), nuc)

opposite_orientation(o) == 1 - o

(***************************************************************************)
(* The graph: five 3-mers, A=0 C=1 G=2 T=3.                                *)
(*   1 AAC   2 ACA   3 ACC   4 ACG   5 AGT (= revcomp ACT)                 *)
(* AAC:FORWARD forks to ACA, ACC, ACG and ACT; each of these leads back to *)
(* AAC in REVERSE orientation (TGT, GGT, CGT, AGT -> GTT).  Colour 0 holds *)
(* all five nodes, colour 1 only AAC, ACC and ACG.                         *)
(***************************************************************************)
Nodes == 1..5
Colours == {0, 1}

db_node_bkmer(n) ==
  CASE n = 1 -> <<0, 0, 1>>
    [] n = 2 -> <<0, 1, 0>>
    [] n = 3 -> <<0, 1, 1>>
    [] n = 4 -> <<0, 1, 2>>
    [] n = 5 -> <<0, 2, 3>>

\* colours a node has coverage in
NodeCols(n) == IF n \in {1, 3, 4} THEN {0, 1} ELSE {0}

db_node_has_col(n, col) == col \in NodeCols(n)

\* union over colours of the edges of a node: orientation -> set of nucleotides
db_node_union_edges(n) ==
  CASE n = 1 -> [o \in Orientation |-> IF o = FORWARD THEN {0, 1, 2, 3} ELSE {}]
    [] n = 5 -> [o \in Orientation |-> IF o = FORWARD THEN {3} ELSE {}]
    [] OTHER -> [o \in Orientation |-> IF o = FORWARD THEN {} ELSE {3}]

edges_get_outdegree(edges, o) == Cardinality(edges[o])

db_graph_oriented_bkmer(n, o) ==
  IF o = FORWARD THEN db_node_bkmer(n)
  ELSE binary_kmer_reverse_complement(db_node_bkmer(n))

db_node_get_orientation(bk, bkey) == IF bk = bkey THEN FORWARD ELSE REVERSE

(***************************************************************************)
(* The path store: entries chained per node through prev.                  *)
(*   AAC: 3 -> 2 -> 1 -> 0      ACA: 5 -> 4                                *)
(***************************************************************************)
PathEntries ==
  [i \in 0..5 |->
    CASE i = 0 -> [prev |-> PATH_NULL, cols |-> {0, 1}, orient |-> REVERSE, bases |-> <<2, 0>>]
      [] i = 1 -> [prev |-> 0, cols |-> {0, 1}, orient |-> FORWARD, bases |-> <<0, 2>>]
      [] i = 2 -> [prev |-> 1, cols |-> {0, 1}, orient |-> FORWARD, bases |-> <<0, 1>>]
      [] i = 3 -> [prev |-> 2, cols |-> {0}, orient |-> FORWARD, bases |-> <<1>>]
      [] i = 4 -> [prev |-> PATH_NULL, cols |-> {0}, orient |-> REVERSE, bases |-> <<3>>]
      [] i = 5 -> [prev |-> 4, cols |-> {0}, orient |-> FORWARD, bases |-> <<0, 1, 0>>]]

\* head of the chain of a node
db_node_paths(n) ==
  CASE n = 1 -> 3
    [] n = 2 -> 5
    [] OTHER -> PATH_NULL

path_store_prev(index) == PathEntries[index].prev
path_store_len(index) == Len(PathEntries[index].bases)
path_store_orient(index) == PathEntries[index].orient
path_store_has_col(index, col) == col \in PathEntries[index].cols
\* base k (0-based) of the entry, as path_store_fetch unpacks it
path_store_fetch(index, k) == PathEntries[index].bases[k + 1]

(***************************************************************************)
(* GraphWalker                                                             *)
(***************************************************************************)
\* F applied to the value of v: v is worked out once, as a C local is
Bind(v, F(_)) == CHOOSE r \in {F(x) : x \in {v}} : TRUE

RECURSIVE Pow2From(_, _)
Pow2From(p, x) == IF p >= x THEN p ELSE Pow2From(2 * p, x)

ROUNDUP2POW(x) == Pow2From(1, x)

\* realloc: the old cells keep their content, the new ones are unwritten
Realloc(arr, oldn, newn, fill) ==
  [k \in 0..(newn - 1) |-> IF k < oldn THEN arr[k] ELSE fill]

\* memcpy(data + dst, data + src, n)
Memcpy(data, dst, src, n) ==
  [k \in DOMAIN data |->
    IF k >= dst /\ k < dst + n THEN data[src + (k - dst)] ELSE data[k]]

\* faulty variant: the bases stay where they were when the rows get longer
ShiftDataUp_None(data, i, new_len, prev_len) == data

\* for(i = prev_num_paths-1; i > 0; i--) memcpy(...)
RECURSIVE ShiftDataUp(_, _, _, _)
ShiftDataUp(data, i, new_len, prev_len) ==
  IF i > 0
  THEN Bind(Memcpy(data, i * new_len, i * prev_len, prev_len),
            LAMBDA d : ShiftDataUp(d, i - 1, new_len, prev_len))
  ELSE data

\* a pointer array after realloc of allpaths: the first `live' slots are
\* rebased, every other slot is uninitialised or points into the old block
RebasePtrs(arr, live, newn) ==
  [k \in 0..(newn - 1) |-> IF k < live /\ k \in DOMAIN arr THEN arr[k] ELSE Garbage]

\* for(i = prev_num_paths; i < max_num_paths; i++) unused_paths[num_unused++] = allpaths + i
RECURSIVE AddNewToUnused(_, _, _, _)
AddNewToUnused(unused, n, i, maxn) ==
  IF i < maxn
  THEN AddNewToUnused([unused EXCEPT ![n] = i], n + 1, i + 1, maxn)
  ELSE [arr |-> unused, num |-> n]

resize_paths(w, new_len) ==
  LET prev_num_paths == w.max_num_paths
      prev_path_len == w.max_path_len
      mnp == IF w.num_unused = 0 THEN 2 * prev_num_paths ELSE prev_num_paths
      mpl == IF new_len > prev_path_len THEN ROUNDUP2POW(new_len) ELSE prev_path_len
      data1 == Bind(Realloc(w.data, prev_num_paths * prev_path_len, mnp * mpl, Junk),
                    LAMBDA data0 :
                      IF prev_path_len < mpl
                      THEN ShiftDataUp(data0, prev_num_paths - 1, mpl, prev_path_len)
                      ELSE data0)
      w1 == [w EXCEPT !.max_num_paths = mnp, !.max_path_len = mpl, !.data = data1]
  IN IF prev_num_paths < mnp
     THEN LET un == AddNewToUnused(RebasePtrs(w.unused_paths, w.num_unused, mnp),
                                   w.num_unused, prev_num_paths, mnp)
          IN [w1 EXCEPT
                !.allpaths = Realloc(w.allpaths, prev_num_paths, mnp,
                                     [pos |-> Junk, len |-> Junk]),
                !.unused_paths = un.arr,
                !.num_unused = un.num,
                !.curr_paths = RebasePtrs(w.curr_paths, w.num_curr + w.num_new, mnp),
                !.counter_paths = RebasePtrs(w.counter_paths, w.num_counter, mnp)]
     ELSE w1

\* path_store_fetch(paths, index, arr[*num]->bases, len)
FetchInto(data, off, index, len) ==
  [k \in DOMAIN data |->
    IF k >= off /\ k < off + len THEN path_store_fetch(index, k - off) ELSE data[k]]

\* faulty variant: a path picked up starts at its last base
PickupOne_AtLastBase(w, index, counter) ==
  LET len == path_store_len(index)
  IN Bind(IF len > w.max_path_len \/ w.num_unused = 0 THEN resize_paths(w, len) ELSE w,
          LAMBDA w1 :
            LET p == w1.unused_paths[w1.num_unused - 1]
                num == IF counter THEN w1.num_counter ELSE w1.num_curr
                w2 == [w1 EXCEPT
                         !.num_unused = @ - 1,
                         !.data = FetchInto(@, p * w1.max_path_len, index, len),
                         !.allpaths = [@ EXCEPT ![p] = [pos |-> len - 1, len |-> len]]]
            IN IF counter
               THEN [w2 EXCEPT !.counter_paths = [@ EXCEPT ![num] = p],
                               !.num_counter = num + 1]
               ELSE [w2 EXCEPT !.curr_paths = [@ EXCEPT ![num] = p],
                               !.num_curr = num + 1])

\* one matching entry picked up: the body of the if in pickup_paths
PickupOne(w, index, counter) ==
  LET len == path_store_len(index)
  IN Bind(IF len > w.max_path_len \/ w.num_unused = 0 THEN resize_paths(w, len) ELSE w,
          LAMBDA w1 :
            LET p == w1.unused_paths[w1.num_unused - 1]
                num == IF counter THEN w1.num_counter ELSE w1.num_curr
                w2 == [w1 EXCEPT
                         !.num_unused = @ - 1,
                         !.data = FetchInto(@, p * w1.max_path_len, index, len),
                         !.allpaths = [@ EXCEPT ![p] = [pos |-> 0, len |-> len]]]
            IN IF counter
               THEN [w2 EXCEPT !.counter_paths = [@ EXCEPT ![num] = p],
                               !.num_counter = num + 1]
               ELSE [w2 EXCEPT !.curr_paths = [@ EXCEPT ![num] = p],
                               !.num_curr = num + 1])

\* while(index != PATH_NULL) { ... index = path_store_prev(paths, index); }
RECURSIVE PickupLoop(_, _, _, _)
RECURSIVE PickupLoop_AnyOrient(_, _, _, _)

\* faulty variant: the orientation of a stored path is not compared
PickupLoop_AnyOrient(w, index, orient, counter) ==
  IF index = PATH_NULL THEN w
  ELSE Bind(IF path_store_has_col(index, w.colour)
            THEN PickupOne(w, index, counter) ELSE w,
            LAMBDA w1 : PickupLoop_AnyOrient(w1, path_store_prev(index), orient, counter))

PickupLoop(w, index, orient, counter) ==
  IF index = PATH_NULL THEN w
  ELSE Bind(IF path_store_has_col(index, w.colour) /\ orient = path_store_orient(index)
            THEN PickupOne(w, index, counter) ELSE w,
            LAMBDA w1 : PickupLoop(w1, path_store_prev(index), orient, counter))

\* the walker after the pick-up; the C function returns *num - start_pos
pickup_paths(w, index, orient, counter) == PickupLoop(w, index, orient, counter)

PickedUp(w0, w1, counter) ==
  IF counter THEN w1.num_counter - w0.num_counter ELSE w1.num_curr - w0.num_curr

\* the GraphWalker structs graph_walker_alloc may be handed: the caller's
\* memory is not initialised, and num_new is the one count alloc leaves as
\* it finds it
UninitWalkers ==
  {[max_path_len |-> Junk, max_num_paths |-> Junk,
    num_unused |-> Junk, num_curr |-> Junk, num_new |-> v, num_counter |-> Junk,
    data |-> <<>>, allpaths |-> <<>>, unused_paths |-> <<>>,
    curr_paths |-> <<>>, counter_paths |-> <<>>,
    node |-> 0, bkmer |-> <<>>, orient |-> FORWARD, colour |-> 0] : v \in {0, 1, 3}}

graph_walker_alloc(w) ==
  [w EXCEPT
     !.max_path_len = 2, !.max_num_paths = 2,
     !.num_unused = 2, !.num_curr = 0, !.num_counter = 0,
     !.data = [k \in 0..3 |-> Junk],
     !.allpaths = [i \in 0..1 |-> [pos |-> Junk, len |-> Junk]],
     !.unused_paths = [i \in 0..1 |-> i],
     !.curr_paths = [i \in 0..1 |-> Garbage],
     !.counter_paths = [i \in 0..1 |-> Garbage]]

graph_walker_init(w, colour, node, orient) ==
  LET gw == [w EXCEPT !.colour = colour, !.node = node, !.orient = orient,
                      !.num_unused = w.max_num_paths,
                      !.num_curr = 0, !.num_new = 0, !.num_counter = 0,
                      !.bkmer = db_graph_oriented_bkmer(node, orient)]
  IN Bind(pickup_paths(gw, db_node_paths(node), orient, FALSE),
          LAMBDA w1 :
            LET n == PickedUp(gw, w1, FALSE)
            IN [w1 EXCEPT !.num_new = n, !.num_curr = w1.num_curr - n])

\* unused_paths[num_unused++] = arr[i] for i in from..to-1
RECURSIVE PushAll(_, _, _, _, _)
PushAll(unused, n, arr, i, to) ==
  IF i < to
  THEN PushAll([unused EXCEPT ![n] = arr[i]], n + 1, arr, i + 1, to)
  ELSE [arr |-> unused, num |-> n]

graph_walker_finish(w) ==
  LET u1 == PushAll(w.unused_paths, w.num_unused, w.curr_paths, 0, w.num_curr + w.num_new)
      u2 == PushAll(u1.arr, u1.num, w.counter_paths, 0, w.num_counter)
  IN [w EXCEPT !.unused_paths = u2.arr, !.num_unused = u2.num,
               !.num_curr = 0, !.num_new = 0, !.num_counter = 0]

\* path->bases[k]
Base(w, p, k) == w.data[p * w.max_path_len + k]
\* path->bases[path->pos]
NextBase(w, p) == Base(w, p, w.allpaths[p].pos)

\* curr_paths[j] = path or counter_paths[j] = path
SetSlot(w, counter, j, path) ==
  IF counter THEN [w EXCEPT !.counter_paths = [@ EXCEPT ![j] = path]]
  ELSE [w EXCEPT !.curr_paths = [@ EXCEPT ![j] = path]]

\* unused_paths[num_unused++] = path
PushUnused(w, path) ==
  [w EXCEPT !.unused_paths = [@ EXCEPT ![w.num_unused] = path],
            !.num_unused = @ + 1]

\* the two filter loops of graph_traverse_force_jump: paths i..n-1 of the
\* list are kept (and aged) when they agree with base and have not ended
RECURSIVE FilterPaths(_, _, _, _, _, _)
RECURSIVE FilterPaths_KeepsEnded(_, _, _, _, _, _)

\* faulty variant: a path that agrees is kept although it has ended
FilterPaths_KeepsEnded(w, counter, i, j, n, base) ==
  IF i >= n THEN [w |-> w, j |-> j]
  ELSE LET path == IF counter THEN w.counter_paths[i] ELSE w.curr_paths[i]
           P == w.allpaths[path]
       IN IF NextBase(w, path) = base
          THEN Bind([SetSlot(w, counter, j, path) EXCEPT
                       !.allpaths = [@ EXCEPT ![path] = [P EXCEPT !.pos = @ + 1]]],
                    LAMBDA w1 : FilterPaths_KeepsEnded(w1, counter, i + 1, j + 1, n, base))
          ELSE Bind(PushUnused(w, path),
                    LAMBDA w1 : FilterPaths_KeepsEnded(w1, counter, i + 1, j, n, base))

FilterPaths(w, counter, i, j, n, base) ==
  IF i >= n THEN [w |-> w, j |-> j]
  ELSE LET path == IF counter THEN w.counter_paths[i] ELSE w.curr_paths[i]
           P == w.allpaths[path]
       IN IF NextBase(w, path) = base /\ P.pos + 1 < P.len
          THEN Bind([SetSlot(w, counter, j, path) EXCEPT
                       !.allpaths = [@ EXCEPT ![path] = [P EXCEPT !.pos = @ + 1]]],
                    LAMBDA w1 : FilterPaths(w1, counter, i + 1, j + 1, n, base))
          ELSE Bind(PushUnused(w, path),
                    LAMBDA w1 : FilterPaths(w1, counter, i + 1, j, n, base))

\* the if(fork) block of graph_traverse_force_jump
ForkFilter(w, bkmer) ==
  LET base == binary_kmer_last_nuc(bkmer)
  IN Bind(FilterPaths(w, FALSE, 0, 0, w.num_curr + w.num_new, base),
          LAMBDA c :
            Bind([c.w EXCEPT !.num_curr = c.j, !.num_new = 0],
                 LAMBDA w1 :
                   Bind(FilterPaths(w1, TRUE, 0, 0, w1.num_counter, base),
                        LAMBDA k : [k.w EXCEPT !.num_counter = k.j])))

\* the rest of graph_traverse_force_jump: move, promote new paths, pick up
JumpTo(w, node, bkmer) ==
  LET w1 == [w EXCEPT !.node = node, !.bkmer = bkmer,
                      !.orient = db_node_get_orientation(bkmer, db_node_bkmer(node)),
                      !.num_curr = w.num_curr + w.num_new]
  IN Bind(pickup_paths(w1, db_node_paths(node), w1.orient, FALSE),
          LAMBDA w2 :
            LET n == PickedUp(w1, w2, FALSE)
            IN [w2 EXCEPT !.num_new = n, !.num_curr = w2.num_curr - n])

graph_traverse_force_jump(w, node, bkmer, fork) ==
  Bind(IF fork THEN ForkFilter(w, bkmer) ELSE w,
       LAMBDA w1 : JumpTo(w1, node, bkmer))

graph_traverse_force(w, node, base, fork) ==
  graph_traverse_force_jump(w, node, binary_kmer_left_shift_add(w.bkmer, base), fork)

\* the loop over the paths just picked up from a predecessor of out-degree > 1:
\* new_paths == counter_paths + num_counter
RECURSIVE KeepCounter(_, _, _, _)
RECURSIVE KeepCounter_AgesAll(_, _, _, _)

\* faulty variant: a path of one base is aged and kept as well
KeepCounter_AgesAll(w, j, k, num_paths) ==
  IF j >= num_paths THEN [w |-> w, k |-> k]
  ELSE LET path == w.counter_paths[w.num_counter + j]
           P == w.allpaths[path]
       IN Bind([w EXCEPT
                  !.allpaths = [@ EXCEPT ![path] = [P EXCEPT !.pos = @ + 1]],
                  !.counter_paths = [@ EXCEPT ![w.num_counter + k] = path]],
               LAMBDA w1 : KeepCounter_AgesAll(w1, j + 1, k + 1, num_paths))

KeepCounter(w, j, k, num_paths) ==
  IF j >= num_paths THEN [w |-> w, k |-> k]
  ELSE LET path == w.counter_paths[w.num_counter + j]
           P == w.allpaths[path]
       IN IF P.len > 1
          THEN Bind([w EXCEPT
                       !.allpaths = [@ EXCEPT ![path] = [P EXCEPT !.pos = @ + 1]],
                       !.counter_paths = [@ EXCEPT ![w.num_counter + k] = path]],
                    LAMBDA w1 : KeepCounter(w1, j + 1, k + 1, num_paths))
          ELSE Bind(PushUnused(w, path),
                    LAMBDA w1 : KeepCounter(w1, j + 1, k, num_paths))

\* faulty variant: a predecessor of out-degree <= 1 is passed over
AddCounterFrom_OnlyForks(w, prev_node, prev_orient) ==
  Bind(pickup_paths(w, db_node_paths(prev_node), prev_orient, TRUE),
       LAMBDA w1 :
         LET num_paths == PickedUp(w, w1, TRUE)
             w2 == [w1 EXCEPT !.num_counter = @ - num_paths]
             edges == db_node_union_edges(prev_node)
         IN IF edges_get_outdegree(edges, prev_orient) > 1
            THEN Bind(w2, LAMBDA w3 :
                   Bind(KeepCounter(w3, 0, 0, num_paths),
                        LAMBDA r : [r.w EXCEPT !.num_counter = @ + r.k]))
            ELSE w)

\* the body of the loop of graph_walker_add_counter_paths for one predecessor
AddCounterFrom(w, prev_node, prev_orient) ==
  Bind(pickup_paths(w, db_node_paths(prev_node), prev_orient, TRUE),
       LAMBDA w1 :
         LET num_paths == PickedUp(w, w1, TRUE)
             w2 == [w1 EXCEPT !.num_counter = @ - num_paths]
             edges == db_node_union_edges(prev_node)
         IN IF edges_get_outdegree(edges, prev_orient) > 1
            THEN Bind(w2, LAMBDA w3 :
                   Bind(KeepCounter(w3, 0, 0, num_paths),
                        LAMBDA r : [r.w EXCEPT !.num_counter = @ + r.k]))
            ELSE [w2 EXCEPT !.num_counter = @ + num_paths])

\* prev is a sequence of <<node, orient>>, one per predecessor
RECURSIVE graph_walker_add_counter_paths(_, _)
graph_walker_add_counter_paths(w, prev) ==
  IF prev = <<>> THEN w
  ELSE Bind(AddCounterFrom(w, Head(prev)[1], Head(prev)[2]),
            LAMBDA w1 : graph_walker_add_counter_paths(w1, Tail(prev)))

\* the bases advocated by the first n paths of a list, scanned as the two
\* counting loops of graph_walker_choose scan them: c is the set of
\* nucleotides x with c[x] = 1, and a loop stops once |c| reaches num_next
RECURSIVE CountAdvocated(_, _, _, _, _, _)
CountAdvocated(w, arr, i, n, c, num_next) ==
  IF i < n /\ Cardinality(c) < num_next
  THEN CountAdvocated(w, arr, i + 1, n, c \cup {NextBase(w, arr[i])}, num_next)
  ELSE c

\* for(i = 1; i < num_curr; i++): TRUE when the loop returns -1
RECURSIVE OldestDisagree(_, _, _, _)
RECURSIVE OldestDisagree_BreakOnEqual(_, _, _, _)
RECURSIVE OldestDisagree_ScansNew(_, _, _, _)

\* faulty variant: the loop breaks at pos <= greatest_age
OldestDisagree_BreakOnEqual(w, i, greatest_age, greatest_nuc) ==
  IF i >= w.num_curr THEN FALSE
  ELSE LET path == w.curr_paths[i]
       IN IF w.allpaths[path].pos <= greatest_age THEN FALSE
          ELSE IF NextBase(w, path) # greatest_nuc THEN TRUE
          ELSE OldestDisagree_BreakOnEqual(w, i + 1, greatest_age, greatest_nuc)

\* faulty variant: the loop runs over the new paths too (i < num_curr + num_new)
OldestDisagree_ScansNew(w, i, greatest_age, greatest_nuc) ==
  IF i >= w.num_curr + w.num_new THEN FALSE
  ELSE LET path == w.curr_paths[i]
       IN IF w.allpaths[path].pos < greatest_age THEN FALSE
          ELSE IF NextBase(w, path) # greatest_nuc THEN TRUE
          ELSE OldestDisagree_ScansNew(w, i + 1, greatest_age, greatest_nuc)

OldestDisagree(w, i, greatest_age, greatest_nuc) ==
  IF i >= w.num_curr THEN FALSE
  ELSE LET path == w.curr_paths[i]
       IN IF w.allpaths[path].pos < greatest_age THEN FALSE
          ELSE IF NextBase(w, path) # greatest_nuc THEN TRUE
          ELSE OldestDisagree(w, i + 1, greatest_age, greatest_nuc)

\* positions (0-based) of the supplied next nodes that are in the walker's
\* colour, in order: the array indices[0..j)
RECURSIVE InColour(_, _, _)
RECURSIVE InColour_AnyColour(_, _, _)

\* faulty variant: the filter keeps every supplied node
InColour_AnyColour(w, next_nodes, i) ==
  IF i > Len(next_nodes) THEN <<>>
  ELSE <<i - 1>> \o InColour_AnyColour(w, next_nodes, i + 1)

InColour(w, next_nodes, i) ==
  IF i > Len(next_nodes) THEN <<>>
  ELSE IF db_node_has_col(next_nodes[i], w.colour)
       THEN <<i - 1>> \o InColour(w, next_nodes, i + 1)
       ELSE InColour(w, next_nodes, i + 1)

\* for(i = 0; i < num_next; i++) if(bases[i] == greatest_nuc) return indices[i];
RECURSIVE FindChoice(_, _, _, _)
FindChoice(indices, next_bases, i, greatest_nuc) ==
  IF i > Len(indices) THEN [result |-> -1, fatal |-> "path_corruption"]
  ELSE IF next_bases[indices[i] + 1] = greatest_nuc
       THEN [result |-> indices[i], fatal |-> "none"]
       ELSE FindChoice(indices, next_bases, i + 1, greatest_nuc)

Returns(r) == [result |-> r, fatal |-> "none"]

\* next_nodes and next_bases are the first num_next entries of the arrays
graph_walker_choose(w, next_nodes, next_bases) ==
  IF Len(next_nodes) = 0 THEN Returns(-1)
  ELSE IF Len(next_nodes) = 1 THEN Returns(0)
  ELSE
    LET indices == InColour(w, next_nodes, 1)
        num_next == Len(indices)
    IN IF num_next = 1 THEN Returns(indices[1])
       ELSE IF num_next = 0 \/ w.num_curr = 0 THEN Returns(-1)
       ELSE
         LET oldest_path == w.curr_paths[0]
             greatest_age == w.allpaths[oldest_path].pos
             greatest_nuc == NextBase(w, oldest_path)
             c1 == CountAdvocated(w, w.curr_paths, 0, w.num_curr, {}, num_next)
             c2 == CountAdvocated(w, w.counter_paths, 0, w.num_counter, c1, num_next)
         IN IF OldestDisagree(w, 1, greatest_age, greatest_nuc) THEN Returns(-1)
            ELSE IF Cardinality(c2) < num_next THEN Returns(-1)
            ELSE IF Cardinality(c2) > num_next
                 THEN [result |-> -1, fatal |-> "counter_path_corruption"]
            ELSE FindChoice(indices, next_bases, 1, greatest_nuc)

\* faulty variant: the new paths are taken over before the choice is made
graph_traverse_nodes_PromotesFirst(w, next_nodes, next_bases) ==
  LET w0 == [w EXCEPT !.num_curr = w.num_curr + w.num_new, !.num_new = 0]
      r == graph_walker_choose(w0, next_nodes, next_bases)
  IN IF r.result = -1 THEN [ok |-> FALSE, fatal |-> r.fatal, indx |-> -1, w |-> w0]
     ELSE [ok |-> TRUE, fatal |-> r.fatal, indx |-> r.result,
           w |-> graph_traverse_force(w0, next_nodes[r.result + 1],
                                      next_bases[r.result + 1],
                                      Len(next_nodes) > 1)]

\* faulty variant: the step is a fork when more than one next node is in
\* the colour of the walker
graph_traverse_nodes_ForkInColour(w, next_nodes, next_bases) ==
  LET r == graph_walker_choose(w, next_nodes, next_bases)
  IN IF r.result = -1 THEN [ok |-> FALSE, fatal |-> r.fatal, indx |-> -1, w |-> w]
     ELSE [ok |-> TRUE, fatal |-> r.fatal, indx |-> r.result,
           w |-> graph_traverse_force(w, next_nodes[r.result + 1],
                                      next_bases[r.result + 1],
                                      Len(InColour(w, next_nodes, 1)) > 1)]

\* ok is the boolean returned, w the walker after the call; fatal is set
\* when graph_walker_choose stopped the program
graph_traverse_nodes(w, next_nodes, next_bases) ==
  LET r == graph_walker_choose(w, next_nodes, next_bases)
  IN IF r.result = -1 THEN [ok |-> FALSE, fatal |-> r.fatal, indx |-> -1, w |-> w]
     ELSE [ok |-> TRUE, fatal |-> r.fatal, indx |-> r.result,
           w |-> graph_traverse_force(w, next_nodes[r.result + 1],
                                      next_bases[r.result + 1],
                                      Len(next_nodes) > 1)]

\* the nodes reached from bkmer by the nucleotides of edges, in the order
\* of the nucleotides
RECURSIVE db_graph_next_nodes(_, _, _)
db_graph_next_nodes(bkmer, edges, nuc) ==
  IF nuc > 3 THEN <<>>
  ELSE (IF nuc \in edges
        THEN LET bk == binary_kmer_left_shift_add(bkmer, nuc)
             IN <<[node |-> CHOOSE n \in Nodes :
                              db_node_bkmer(n) \in {bk, binary_kmer_reverse_complement(bk)},
                   base |-> nuc]>>
        ELSE <<>>) \o db_graph_next_nodes(bkmer, edges, nuc + 1)

\* the next array graph_traverse hands to graph_traverse_nodes
graph_traverse(w) ==
  db_graph_next_nodes(w.bkmer, db_node_union_edges(w.node)[w.orient], 0)

(***************************************************************************)
(* State machine                                                           *)
(***************************************************************************)
NoRet == [op |-> "none"]

Init ==
  /\ wlk \in {graph_walker_alloc(w) : w \in UninitWalkers}
  /\ pc = "alloc"
  /\ nops = 0
  /\ ret = NoRet
  /\ mid = NoRet
  /\ cln = NoRet

\* graph_walker_choose changes nothing, so the calls that change the walker
\* are explored from the states that were not produced by a choose call
Settled == ret.op # "choose"

WalkerInit(colour, node, orient) ==
  /\ pc \in {"alloc", "finished"}
  /\ Settled
  /\ nops < MaxOps
  /\ nops' = nops + 1
  /\ LET w == graph_walker_init(wlk, colour, node, orient)
     IN /\ w.max_num_paths <= MaxNumPaths
        /\ wlk' = w
  /\ pc' = "active"
  /\ ret' = [op |-> "init"]
  /\ UNCHANGED <<mid, cln>>

WalkerFinish ==
  /\ pc = "active"
  /\ Settled
  /\ nops < MaxOps
  /\ nops' = nops + 1
  /\ wlk' = graph_walker_finish(wlk)
  /\ pc' = "finished"
  /\ ret' = [op |-> "finish"]
  /\ UNCHANGED <<mid, cln>>

\* the records in unused_paths[0..num_unused)
UnusedSet(w) == {w.unused_paths[i] : i \in 0..(w.num_unused - 1)}

ForceJump(node, o, fork) ==
  /\ pc = "active"
  /\ Settled
  /\ nops < MaxOps
  /\ nops' = nops + 1
  /\ LET bkmer == db_graph_oriented_bkmer(node, o)
         w == graph_traverse_force_jump(wlk, node, bkmer, fork)
         m == IF fork THEN ForkFilter(wlk, bkmer) ELSE wlk
     IN /\ w.max_num_paths <= MaxNumPaths
        /\ wlk' = w
        /\ mid' = [op |-> "jump", unused |-> UnusedSet(m), num_new |-> m.num_new,
                   was_curr |-> wlk.num_curr, was_new |-> wlk.num_new,
                   was_counter |-> wlk.num_counter]
  /\ ret' = [op |-> "jump", fork |-> fork, node |-> node,
             bkmer |-> db_graph_oriented_bkmer(node, o)]
  /\ UNCHANGED <<pc, cln>>

\* the predecessors handed to graph_walker_add_counter_paths: nodes that
\* have a path chain, in either orientation
PrevLists ==
  UNION {[1..n -> {m \in Nodes : db_node_paths(m) # PATH_NULL} \X Orientation] :
           n \in 0..MaxPrev}

AddCounterPaths(prev) ==
  /\ pc = "active"
  /\ Settled
  /\ nops < MaxOps
  /\ nops' = nops + 1
  /\ LET w == graph_walker_add_counter_paths(wlk, prev)
     IN /\ w.max_num_paths <= MaxNumPaths
        /\ wlk' = w
  /\ ret' = [op |-> "add_counter", prev |-> prev]
  /\ UNCHANGED <<pc, mid, cln>>

\* the next arrays handed to graph_walker_choose: the successors of
\* AAC:FORWARD, or any of them left out, in the order of their bases
Successors == <<[node |-> 2, base |-> 0], [node |-> 3, base |-> 1],
                [node |-> 4, base |-> 2], [node |-> 5, base |-> 3]>>

RECURSIVE SubSeqs(_)
SubSeqs(s) ==
  IF s = <<>> THEN {<<>>}
  ELSE LET rest == SubSeqs(Tail(s))
       IN rest \cup {<<Head(s)>> \o r : r \in rest}

NextArrays == SubSeqs(Successors)

NodesOf(next) == [i \in 1..Len(next) |-> next[i].node]
BasesOf(next) == [i \in 1..Len(next) |-> next[i].base]

\* after a choose call only the same call is repeated: every other call is
\* explored from the state before it, which has the same walker
Choose(next) ==
  /\ pc = "active"
  /\ IF Settled THEN TRUE ELSE ret.next = next
  /\ LET r == graph_walker_choose(wlk, NodesOf(next), BasesOf(next))
     IN /\ ret' = [op |-> "choose", next |-> next, result |-> r.result, fatal |-> r.fatal]
        /\ pc' = IF r.fatal = "none" THEN pc ELSE "dead"
  /\ UNCHANGED <<wlk, nops, mid, cln>>

\* a traversal step with the next array given: graph_traverse_nodes, or
\* graph_traverse when the array is the one read from the graph
TraverseStep(op, next) ==
  /\ pc = "active"
  /\ Settled
  /\ nops < MaxOps
  /\ nops' = nops + 1
  /\ LET r == graph_traverse_nodes(wlk, NodesOf(next), BasesOf(next))
     IN /\ r.w.max_num_paths <= MaxNumPaths
        /\ wlk' = r.w
        /\ pc' = IF r.fatal = "none" THEN pc ELSE "dead"
        /\ ret' = [op |-> op, next |-> next, ok |-> r.ok, indx |-> r.indx,
                   held |-> wlk.num_curr + wlk.num_new + wlk.num_counter]
  /\ UNCHANGED <<mid, cln>>

\* graph_traverse_nodes called by a walker that stands on AAC:FORWARD with
\* successors of that node
TraverseNodes(next) ==
  /\ wlk.bkmer = db_node_bkmer(1)
  /\ TraverseStep("traverse_nodes", next)

\* graph_traverse: the successors are read from the graph
Traverse ==
  /\ pc = "active"
  /\ TraverseStep("traverse", graph_traverse(wlk))

\* the nodes the walker is started at or moved to
WalkNodes == {1, 2, 4}

Next ==
  \/ \E c \in Colours, n \in WalkNodes, o \in Orientation : WalkerInit(c, n, o)
  \/ \E n \in WalkNodes, o \in Orientation, f \in BOOLEAN : ForceJump(n, o, f)
  \/ \E next \in NextArrays : Choose(next)
  \/ \E prev \in PrevLists : AddCounterPaths(prev)
  \/ \E next \in NextArrays : TraverseNodes(next)
  \/ Traverse
  \/ WalkerFinish

Spec == Init /\ [][Next]_vars

(***************************************************************************)
(* Properties of graph_walker_choose                                       *)
(***************************************************************************)
IsChoice == ret.op = "choose"
Returned == IsChoice /\ ret.fatal = "none" /\ ret.result >= 0
NoChoice == IsChoice /\ ret.fatal = "none" /\ ret.result = -1

\* positions (1-based) of the supplied next nodes that are in the walker's colour
InCol == {i \in 1..Len(ret.next) : db_node_has_col(ret.next[i].node, wlk.colour)}
\* m, the number of next nodes in the walker's colour
NumInCol == Cardinality(InCol)

CurrRecs == {wlk.curr_paths[i] : i \in 0..(wlk.num_curr - 1)}
CounterRecs == {wlk.counter_paths[i] : i \in 0..(wlk.num_counter - 1)}
\* U, the nucleotides advocated by the current and the counter paths
AdvocatedSet == {NextBase(wlk, p) : p \in CurrRecs \cup CounterRecs}

\* C1 (as claimed): at a fork with m >= 2 next nodes in the walker's colour and
\* at least one current path, an index is returned only if the nucleotide of
\* every in-colour next node is advocated by a current or a counter path.
\* (A fatal exit is not counted against the claim here: only a returned index.)
C1_EveryNextAdvocated ==
  (Returned /\ NumInCol >= 2 /\ wlk.num_curr >= 1) =>
     \A i \in InCol : ret.next[i].base \in AdvocatedSet

\* the current paths as a sequence, oldest first
CurrSeq == [i \in 1..wlk.num_curr |-> wlk.curr_paths[i - 1]]
Pos(p) == wlk.allpaths[p].pos
\* the largest pos among the current paths
MaxCurrPos == CHOOSE a \in {Pos(p) : p \in CurrRecs} : \A p \in CurrRecs : Pos(p) <= a
OldestRecs == {p \in CurrRecs : Pos(p) = MaxCurrPos}

\* C2: when an index is returned at a fork with m >= 2 in-colour next nodes,
\* the chosen nucleotide is bases[pos] of the current paths of largest pos,
\* which all propose it; when two current paths of largest pos propose
\* different nucleotides the result is 'no choice'.
C2_OldestPathDecides ==
  (IsChoice /\ NumInCol >= 2 /\ wlk.num_curr >= 1) =>
     /\ Returned =>
          \A p \in OldestRecs : NextBase(wlk, p) = ret.next[ret.result + 1].base
     /\ (\E p, q \in OldestRecs : NextBase(wlk, p) # NextBase(wlk, q)) => NoChoice

\* an index was returned at a fork although a younger current path proposes
\* another nucleotide than the oldest one
C2_Witness ==
  /\ Returned /\ NumInCol >= 2
  /\ \E p \in CurrRecs : Pos(p) < MaxCurrPos /\
        NextBase(wlk, p) # ret.next[ret.result + 1].base

\* a fork at which the two oldest current paths disagree
C2_DisagreeReached ==
  /\ IsChoice /\ NumInCol >= 2 /\ wlk.num_curr >= 2
  /\ \E p, q \in OldestRecs : NextBase(wlk, p) # NextBase(wlk, q)

\* C3 (as claimed): for every number of supplied next nodes, a returned index
\* refers to the supplied array and to a node in the walker's colour, and
\* when no supplied node is in the walker's colour the result is 'no choice'.
C3_AsClaimed ==
  (IsChoice /\ ret.fatal = "none") =>
     /\ Returned => (ret.result + 1) \in InCol
     /\ InCol = {} => NoChoice

\* C3 (amended): that holds when two or more next nodes are supplied; a
\* single supplied next node is chosen (index 0) whatever its colours, and
\* with no next node the result is 'no choice'.
C3_ColourRestriction ==
  (IsChoice /\ ret.fatal = "none") =>
     /\ Len(ret.next) >= 2 =>
          /\ Returned => (ret.result + 1) \in InCol
          /\ InCol = {} => NoChoice
     /\ Len(ret.next) = 1 => ret.result = 0
     /\ Len(ret.next) = 0 => NoChoice

\* an index was returned at a fork where a node supplied before the chosen
\* one is not in the walker's colour
C3_Witness ==
  /\ Returned /\ NumInCol >= 2
  /\ \E i \in 1..ret.result : i \notin InCol

\* what a path holds: its pos, its len and bases[0..len)
PathOf(w, p) ==
  [pos |-> w.allpaths[p].pos, len |-> w.allpaths[p].len,
   bases |-> [k \in 1..w.allpaths[p].len |-> Base(w, p, k - 1)]]
\* the current, new and counter paths of a walker, in list order
CurrPathsOf(w) == [i \in 1..w.num_curr |-> PathOf(w, w.curr_paths[i - 1])]
NewPathsOf(w) == [i \in 1..w.num_new |-> PathOf(w, w.curr_paths[w.num_curr + i - 1])]
CounterPathsOf(w) == [i \in 1..w.num_counter |-> PathOf(w, w.counter_paths[i - 1])]

\* a walker that holds the given current and counter paths and nothing
\* else: no new path, no unused record, records numbered in list order, no
\* anchor
WalkerOf(curr, counter, colour) ==
  LET all == curr \o counter
      n == Len(all)
      L == 4
  IN [max_path_len |-> L, max_num_paths |-> n,
      num_unused |-> 0, num_curr |-> Len(curr), num_new |-> 0,
      num_counter |-> Len(counter),
      data |-> [k \in 0..(n * L - 1) |->
                 LET P == all[(k \div L) + 1]
                 IN IF k % L < P.len THEN P.bases[(k % L) + 1] ELSE Junk],
      allpaths |-> [r \in 0..(n - 1) |-> [pos |-> all[r + 1].pos, len |-> all[r + 1].len]],
      unused_paths |-> [i \in 0..(n - 1) |-> Garbage],
      curr_paths |-> [i \in 0..(n - 1) |-> IF i < Len(curr) THEN i ELSE Garbage],
      counter_paths |-> [i \in 0..(n - 1) |->
                          IF i < Len(counter) THEN Len(curr) + i ELSE Garbage],
      node |-> 0, bkmer |-> <<>>, orient |-> FORWARD, colour |-> colour]

\* the result of the call as a function of the current paths, the counter
\* paths, the next arrays and the colour alone
ChoiceOf(curr, counter, next, colour) ==
  graph_walker_choose(WalkerOf(curr, counter, colour), NodesOf(next), BasesOf(next))

\* C5: graph_walker_choose changes no walker state, and its result is
\* determined by the current paths, the counter paths, the next arrays and
\* the colour: not by the new or unused paths, by which pool record holds a
\* path, by stale memory, by the anchor or by earlier calls.
C5_ChoiceDetermined ==
  IsChoice =>
    LET r == ChoiceOf(CurrPathsOf(wlk), CounterPathsOf(wlk), ret.next, wlk.colour)
    IN ret.result = r.result /\ ret.fatal = r.fatal

C5_ChoosePure ==
  /\ []C5_ChoiceDetermined
  /\ [][IsChoice' =>
         /\ wlk' = wlk
         /\ (IsChoice /\ ret'.next = ret.next) => ret' = ret]_vars

\* an index was returned at a fork while the walker holds a new path that
\* proposes another nucleotide, and unused records
C5_Witness ==
  /\ Returned /\ NumInCol >= 2 /\ wlk.num_unused > 0
  /\ \E i \in 1..wlk.num_new :
        LET P == NewPathsOf(wlk)[i]
        IN P.bases[P.pos + 1] # ret.next[ret.result + 1].base

\* the current paths of largest pos agree (step 3 of the selection passes)
OldestAgree == \A p, q \in OldestRecs : NextBase(wlk, p) = NextBase(wlk, q)

\* C4 (as claimed): when more distinct nucleotides are advocated by the
\* current and counter paths than there are in-colour next nodes (m >= 2),
\* the call ends fatally instead of returning an index or 'no choice'.
\* (Either fatal exit is accepted here, not only the counter-path one.)
C4_CorruptionIsFatal ==
  (IsChoice /\ NumInCol >= 2 /\ wlk.num_curr >= 1 /\ OldestAgree
     /\ Cardinality(AdvocatedSet) > NumInCol)
  => ret.fatal # "none"

(***************************************************************************)
(* The clean command (ctx_clean)                                           *)
(***************************************************************************)
\* the most graph files on a command line
MaxFiles == 2

\* An option that takes a value is <<>> when it is not given and <<v>> when
\* it is given with value v; a path option is TRUE when it is given.
\* out is "" (no --out), "-" (standard output) or a file name.
\* files holds, for each input graph file, the kmer_size of its header and
\* the number of colours it holds.
FileHeaders == {[kmer_size |-> 3, ncols |-> 1], [kmer_size |-> 3, ncols |-> 2],
                [kmer_size |-> 5, ncols |-> 1]}

CmdLines ==
  [tips : {<<>>, <<1>>, <<4>>},
   supernodes : BOOLEAN,
   covgs : BOOLEAN,
   threshold : {<<>>, <<0>>, <<3>>},
   kdepth : {<<>>, <<1>>, <<2>>},
   len_before : BOOLEAN,
   len_after : BOOLEAN,
   out : {"", "-", "out.ctx"},
   files : UNION {[1..n -> FileHeaders] : n \in 0..MaxFiles}]

\* the statements of ctx_clean in program order
Steps == <<"args", "open", "plan", "io", "load", "len_before", "tips",
           "supernodes", "len_after", "write", "check", "exit">>

StepIndex(at) == CHOOSE i \in 1..Len(Steps) : Steps[i] = at

\* faulty variant: supernode thresholding ahead of tip clipping
AfterStep_SupernodesFirst(at) ==
  LET order == <<"args", "open", "plan", "io", "load", "len_before", "supernodes",
                 "tips", "len_after", "write", "check", "exit">>
  IN order[(CHOOSE i \in 1..Len(order) : order[i] = at) + 1]

\* the statement that follows at
AfterStep(at) == Steps[StepIndex(at) + 1]

\* the locals of ctx_clean as declared (lines 47-52), before the options
\* are read, and the state of the run; clip_len is the length handed to
\* cleaning_remove_tips (0: not called) and snodes_called the arguments
\* handed to cleaning_remove_supernodes (<<>>: not called); out_exists is
\* whether the --out file was on disk when the run began; ginfo_in is the
\* output header as merged from the input headers; memsets counts the
\* calls of memset on visited; hdrcol[i][j] and loadcol[i][j] are the
\* header entry and the graph colour that colour j of file i went into
CleanStart(c) ==
  [at |-> "args", cmd |-> c,
   tip_cleaning |-> FALSE, supernode_cleaning |-> FALSE,
   max_tip_len |-> 0, threshold |-> 0, seq_depth |-> -1,
   dump_covgs |-> FALSE, len_before_path |-> FALSE, len_after_path |-> FALSE,
   out_ctx_path |-> "", doing_cleaning |-> FALSE,
   kmer_size |-> 0, total_cols |-> 0, use_ncols |-> 0,
   fltr |-> <<>>, hdrcol |-> <<>>, loadcol |-> <<>>,
   len_before_fh |-> FALSE, len_after_fh |-> FALSE,
   loaded |-> FALSE,
   visited0 |-> 0, visited_zero |-> TRUE, memsets |-> 0,
   ginfo |-> <<>>, ginfo_in |-> <<>>,
   clip_len |-> 0, snodes_called |-> <<>>, out_exists |-> FALSE,
   created |-> {}, log |-> <<>>]

\* cmd_print_usage and die do not return
Usage(s) == [s EXCEPT !.at = "usage"]
Die(s) == [s EXCEPT !.at = "die"]

\* the option loop (lines 54-95): TRUE when an option's value is refused
BadOptionValue(c) ==
  \/ c.tips # <<>> /\ c.tips[1] <= 1
  \/ c.threshold # <<>> /\ c.threshold[1] <= 1
  \/ c.kdepth # <<>> /\ c.kdepth[1] <= 1

\* the locals after the option loop
OptionsRead(s) ==
  LET c == s.cmd
  IN [s EXCEPT
        !.tip_cleaning = (c.tips # <<>>),
        !.max_tip_len = IF c.tips # <<>> THEN c.tips[1] ELSE 0,
        !.supernode_cleaning = c.supernodes,
        !.dump_covgs = c.covgs,
        !.threshold = IF c.threshold # <<>> THEN c.threshold[1] ELSE 0,
        !.seq_depth = IF c.kdepth # <<>> THEN c.kdepth[1] ELSE -1,
        !.len_before_path = c.len_before,
        !.len_after_path = c.len_after,
        !.out_ctx_path = c.out]

\* faulty variant: the default is tip clipping alone
Defaults_TipsOnly(s) ==
  LET both == ~s.tip_cleaning /\ ~s.supernode_cleaning /\ s.out_ctx_path # ""
      tip == s.tip_cleaning \/ both
  IN [s EXCEPT !.tip_cleaning = tip, !.doing_cleaning = (s.supernode_cleaning \/ tip)]

\* "Default behaviour" (lines 101-107) and doing_cleaning (line 109)
Defaults(s) ==
  LET both == ~s.tip_cleaning /\ ~s.supernode_cleaning /\ s.out_ctx_path # ""
      tip == s.tip_cleaning \/ both
      sn == s.supernode_cleaning \/ both
  IN [s EXCEPT !.tip_cleaning = tip, !.supernode_cleaning = sn,
               !.doing_cleaning = (sn \/ tip)]

\* faulty variant: an output file that exists is overwritten
ArgsRefused_Overwrites(s, out_exists) ==
  \/ s.doing_cleaning /\ s.out_ctx_path = ""
  \/ ~s.supernode_cleaning /\ s.threshold > 0
  \/ ~s.supernode_cleaning /\ s.seq_depth > 0
  \/ s.supernode_cleaning /\ s.threshold # 0 /\ s.seq_depth > 0
  \/ ~s.doing_cleaning /\ s.len_after_path

\* the checks of lines 111-134; out_exists is futil_file_exists(out_ctx_path)
ArgsRefused(s, out_exists) ==
  \/ s.doing_cleaning /\ s.out_ctx_path = ""
  \/ ~s.supernode_cleaning /\ s.threshold > 0
  \/ ~s.supernode_cleaning /\ s.seq_depth > 0
  \/ s.supernode_cleaning /\ s.threshold # 0 /\ s.seq_depth > 0
  \/ ~s.doing_cleaning /\ s.len_after_path
  \/ s.out_ctx_path # "" /\ s.out_ctx_path # "-" /\ out_exists

\* lines 40-134 of ctx_clean
clean_args(s0, out_exists) ==
  LET s == [s0 EXCEPT !.out_exists = out_exists]
  IN
  IF BadOptionValue(s.cmd) THEN Usage(s)
  ELSE LET s1 == OptionsRead(s)
       IN IF Len(s.cmd.files) = 0 THEN Usage(s1)
          ELSE LET s2 == Defaults(s1)
               IN IF ArgsRefused(s2, out_exists) THEN Usage(s2)
                  ELSE [s2 EXCEPT !.at = AfterStep(s.at)]

\* the colour filter of a graph file as graph_file_open leaves it for a
\* plain path: all ncols colours of the file, into colour 0 onwards
FileFilter(hdr) == [intocol |-> 0, ncols |-> hdr.ncols, flatten |-> FALSE]
\* the number of colours a file takes up in the output
graph_file_usedcols(fltr) == fltr.intocol + (IF fltr.flatten THEN 1 ELSE fltr.ncols)
\* the colour that colour j (0-based) of a file goes into
graph_file_intocol(fltr, j) == fltr.intocol + (IF fltr.flatten THEN 0 ELSE j)
file_filter_update_intocol(fltr, intocol) == [fltr EXCEPT !.intocol = intocol]

RECURSIVE SumUsedCols(_, _)
\* total_cols after the first n files (lines 154-155)
SumUsedCols(files, n) ==
  IF n = 0 THEN 0
  ELSE SumUsedCols(files, n - 1) + graph_file_usedcols(FileFilter(files[n]))

\* lines 136-179: open the graph files, give each file its colours, count
\* the colours, flatten when nothing is cleaned, default tip length;
\* ncols_arg is args->use_ncols
clean_open(s, ncols_arg) ==
  LET files == s.cmd.files
      num_files == Len(files)
  IN IF \E i \in 1..num_files : files[1].kmer_size # files[i].kmer_size THEN Usage(s)
     ELSE LET kmer_size == files[1].kmer_size
              ranged == [i \in 1..num_files |->
                          file_filter_update_intocol(FileFilter(files[i]),
                            FileFilter(files[i]).intocol + SumUsedCols(files, i - 1))]
              fltr == IF s.doing_cleaning THEN ranged
                      ELSE [i \in 1..num_files |-> file_filter_update_intocol(ranged[i], 0)]
              total_cols == IF s.doing_cleaning THEN SumUsedCols(files, num_files) ELSE 1
              use_ncols0 == IF s.doing_cleaning THEN ncols_arg ELSE 1
              use_ncols == IF total_cols < use_ncols0 THEN total_cols ELSE use_ncols0
          IN [s EXCEPT
                !.at = AfterStep(s.at),
                !.kmer_size = kmer_size,
                !.total_cols = total_cols,
                !.use_ncols = use_ncols,
                !.fltr = fltr,
                !.max_tip_len = IF s.tip_cleaning /\ s.max_tip_len = 0
                                THEN 2 * kmer_size ELSE s.max_tip_len]

\* lines 181-228: warnings, the list of actions, the memory to use;
\* cmd_check_mem_limit stops the run when the limit is exceeded
clean_plan(s, mem_ok) ==
  IF mem_ok THEN [s EXCEPT !.at = AfterStep(s.at)] ELSE Die(s)

\* fopen(path, "w") and a successful futil_is_file_writable(path) ("Creates
\* file if it can write") leave the file on disk
Created(s, path) == [s EXCEPT !.created = @ \cup {path}]

\* lines 230-246: the output paths are checked and the two histogram
\* files are opened for writing
clean_io(s, out_writable, covgs_writable, before_opens, after_opens) ==
  LET is_file == s.out_ctx_path # "" /\ s.out_ctx_path # "-"
      s1 == IF is_file /\ out_writable THEN Created(s, "out") ELSE s
      s2 == IF s.dump_covgs /\ covgs_writable THEN Created(s1, "covgs") ELSE s1
      s3 == IF s.len_before_path /\ before_opens
            THEN [Created(s2, "len_before") EXCEPT !.len_before_fh = TRUE] ELSE s2
      s4 == IF s.len_after_path /\ after_opens
            THEN [Created(s3, "len_after") EXCEPT !.len_after_fh = TRUE] ELSE s3
  IN IF is_file /\ ~out_writable THEN Usage(s)
     ELSE IF s.dump_covgs /\ ~covgs_writable THEN Usage(s1)
     ELSE IF s.len_before_path /\ ~before_opens THEN Die(s2)
     ELSE IF s.len_after_path /\ ~after_opens THEN Die(s3)
     ELSE [s4 EXCEPT !.at = AfterStep(s.at)]

\* the cleaning record of a colour in a graph header
GInfos ==
  {[cleaned_tips |-> FALSE, cleaned_snodes |-> FALSE, clean_snodes_thresh |-> 0],
   [cleaned_tips |-> TRUE, cleaned_snodes |-> FALSE, clean_snodes_thresh |-> 5],
   [cleaned_tips |-> FALSE, cleaned_snodes |-> TRUE, clean_snodes_thresh |-> 2],
   [cleaned_tips |-> TRUE, cleaned_snodes |-> TRUE, clean_snodes_thresh |-> 5]}

\* the merged input info of n output colours: the first two colours come
\* in with any cleaning record, the colours after them uncleaned
MergedInfos(n) ==
  {g \in [1..n -> GInfos] :
     \A i \in 1..n : i > 2 =>
        g[i] = [cleaned_tips |-> FALSE, cleaned_snodes |-> FALSE, clean_snodes_thresh |-> 0]}

\* lines 248-315: the graph is allocated with use_ncols colours, the
\* output header with total_cols entries is built from the merged input
\* headers (ginfo, one record per output colour) and the files are loaded,
\* all into colour 0 when not every colour fits; a load error stops the
\* run; visited is calloc'ed.  An entry or colour out of range is a write
\* outside the allocation: the run crashes or goes on.
clean_load(s, ginfo, load_ok, crash) ==
  LET num_files == Len(s.fltr)
      hdrcol == [i \in 1..num_files |->
                  [j \in 1..s.fltr[i].ncols |-> graph_file_intocol(s.fltr[i], j - 1)]]
      one == [i \in 1..num_files |->
                [file_filter_update_intocol(s.fltr[i], 0) EXCEPT !.flatten = TRUE]]
      loaded == IF s.total_cols > s.use_ncols THEN one ELSE s.fltr
      loadcol == [i \in 1..num_files |->
                   [j \in 1..loaded[i].ncols |-> graph_file_intocol(loaded[i], j - 1)]]
      outside == \E i \in 1..num_files : \E j \in 1..s.fltr[i].ncols :
                    hdrcol[i][j] >= s.total_cols \/ loadcol[i][j] >= s.use_ncols
  IN IF ~load_ok \/ (outside /\ crash) THEN Die(s)
     ELSE [s EXCEPT !.at = AfterStep(s.at), !.ginfo = ginfo, !.ginfo_in = ginfo,
                    !.hdrcol = hdrcol, !.loadcol = loadcol,
                    !.loaded = TRUE,
                    !.visited0 = 0, !.visited_zero = TRUE]

\* if(visited[0]) memset(visited, 0, ...)
ZeroIfUsed(s) ==
  IF s.visited0 # 0
  THEN [s EXCEPT !.visited_zero = TRUE, !.visited0 = 0, !.memsets = @ + 1]
  ELSE s

\* faulty variant: visited[0] is left as the pass left it, here 0
RunPass_NoSentinel(s, pass) ==
  [s EXCEPT !.log = Append(@, [pass |-> pass, zero |-> s.visited_zero]),
            !.visited_zero = FALSE, !.visited0 = 0]

\* a pass over the graph: it starts on the array as it is, marks the nodes
\* it visits, and visited[0] = 1 follows; the log keeps the pass and
\* whether it started on an all-zero array
RunPass(s, pass) ==
  [s EXCEPT !.log = Append(@, [pass |-> pass, zero |-> s.visited_zero]),
            !.visited_zero = FALSE, !.visited0 = 1]

\* lines 317-323
clean_len_before(s) ==
  [(IF s.len_before_fh THEN RunPass(s, "len_before") ELSE s)
     EXCEPT !.at = AfterStep(s.at)]

\* lines 325-330
clean_tips(s) ==
  [(IF s.tip_cleaning
    THEN [RunPass(ZeroIfUsed(s), "tips") EXCEPT !.clip_len = s.max_tip_len]
    ELSE s)
     EXCEPT !.at = AfterStep(s.at)]

\* the thresholds cleaning_remove_supernodes may return: the one given,
\* or one derived from the depth or from the coverage histogram, or 0 when
\* none could be derived
ThresholdsReturned(s) == IF s.threshold > 0 THEN {s.threshold} ELSE {0, 2, 7}

\* faulty variant: a returned threshold of 0 does not switch supernode
\* cleaning off
clean_supernodes_IgnoresZero(s, returned) ==
  IF s.supernode_cleaning \/ s.dump_covgs
  THEN [RunPass(ZeroIfUsed(s), "supernodes") EXCEPT
          !.threshold = returned,
          !.at = AfterStep(s.at),
          !.snodes_called = <<[clean |-> s.supernode_cleaning,
                               threshold |-> s.threshold,
                               seq_depth |-> s.seq_depth,
                               dump_covgs |-> s.dump_covgs]>>]
  ELSE [s EXCEPT !.at = AfterStep(s.at)]

\* lines 332-345
clean_supernodes(s, returned) ==
  IF s.supernode_cleaning \/ s.dump_covgs
  THEN LET s1 == [RunPass(ZeroIfUsed(s), "supernodes") EXCEPT !.threshold = returned]
           sn == IF returned = 0 THEN FALSE ELSE s.supernode_cleaning
       IN [s1 EXCEPT
             !.at = AfterStep(s.at),
             !.snodes_called = <<[clean |-> s.supernode_cleaning,
                                  threshold |-> s.threshold,
                                  seq_depth |-> s.seq_depth,
                                  dump_covgs |-> s.dump_covgs]>>,
             !.supernode_cleaning = sn,
             !.doing_cleaning = IF returned = 0 THEN (sn \/ s.tip_cleaning) ELSE @]
  ELSE [s EXCEPT !.at = AfterStep(s.at)]

\* lines 347-355
clean_len_after(s) ==
  [(IF s.len_after_fh THEN RunPass(ZeroIfUsed(s), "len_after") ELSE s)
     EXCEPT !.at = AfterStep(s.at)]

MIN2(a, b) == IF a <= b THEN a ELSE b

\* faulty variant: the flags are assigned, not or-ed
SetCleaned_Assigns(s, g) ==
  [cleaned_tips |-> s.tip_cleaning,
   cleaned_snodes |-> s.supernode_cleaning,
   clean_snodes_thresh |->
     IF s.supernode_cleaning THEN MIN2(g.clean_snodes_thresh, s.threshold)
     ELSE g.clean_snodes_thresh]

\* lines 368-379: the cleaning record of one output colour
SetCleaned(s, g) ==
  LET snodes == g.cleaned_snodes \/ s.supernode_cleaning
  IN [cleaned_tips |-> g.cleaned_tips \/ s.tip_cleaning,
      cleaned_snodes |-> snodes,
      clean_snodes_thresh |->
        IF s.supernode_cleaning
        THEN (IF snodes THEN MIN2(g.clean_snodes_thresh, s.threshold) ELSE s.threshold)
        ELSE g.clean_snodes_thresh]

\* lines 357-399: free(visited); the header is marked and the graph written
clean_write(s) ==
  IF s.doing_cleaning
  THEN [s EXCEPT
          !.at = AfterStep(s.at),
          !.ginfo = [i \in 1..Len(s.ginfo) |-> SetCleaned(s, s.ginfo[i])],
          !.created = @ \cup {"out"},
          !.log = Append(@, [pass |-> "write", zero |-> s.visited_zero])]
  ELSE [s EXCEPT !.at = AfterStep(s.at)]

\* lines 402-412: ctx_check, the graph is freed, return EXIT_SUCCESS
clean_check(s) == [s EXCEPT !.at = AfterStep(s.at)]

\* the walker is not used by the clean command
CleanFrame == UNCHANGED <<wlk, pc, nops, ret, mid>>

InitClean ==
  /\ wlk = graph_walker_alloc(CHOOSE w \in UninitWalkers : w.num_new = 0)
  /\ pc = "alloc"
  /\ nops = 0
  /\ ret = NoRet
  /\ mid = NoRet
  /\ cln \in {CleanStart(c) : c \in CmdLines}

CleanArgs ==
  /\ cln.at = "args"
  /\ \E out_exists \in BOOLEAN : cln' = clean_args(cln, out_exists)
  /\ CleanFrame

CleanOpen ==
  /\ cln.at = "open"
  /\ \E ncols_arg \in {1, 2} : cln' = clean_open(cln, ncols_arg)
  /\ CleanFrame

CleanPlan ==
  /\ cln.at = "plan"
  /\ \E mem_ok \in BOOLEAN : cln' = clean_plan(cln, mem_ok)
  /\ CleanFrame

CleanIO ==
  /\ cln.at = "io"
  /\ \E ow, cw, bo, ao \in BOOLEAN : cln' = clean_io(cln, ow, cw, bo, ao)
  /\ CleanFrame

CleanLoad ==
  /\ cln.at = "load"
  /\ \E ginfo \in MergedInfos(cln.total_cols), load_ok, crash \in BOOLEAN :
        cln' = clean_load(cln, ginfo, load_ok, crash)
  /\ CleanFrame

CleanLenBefore ==
  /\ cln.at = "len_before"
  /\ cln' = clean_len_before(cln)
  /\ CleanFrame

CleanTips ==
  /\ cln.at = "tips"
  /\ cln' = clean_tips(cln)
  /\ CleanFrame

CleanSupernodes ==
  /\ cln.at = "supernodes"
  /\ \E returned \in ThresholdsReturned(cln) : cln' = clean_supernodes(cln, returned)
  /\ CleanFrame

CleanLenAfter ==
  /\ cln.at = "len_after"
  /\ cln' = clean_len_after(cln)
  /\ CleanFrame

CleanWrite ==
  /\ cln.at = "write"
  /\ cln' = clean_write(cln)
  /\ CleanFrame

CleanCheck ==
  /\ cln.at = "check"
  /\ cln' = clean_check(cln)
  /\ CleanFrame

NextClean ==
  \/ CleanArgs
  \/ CleanOpen
  \/ CleanPlan
  \/ CleanIO
  \/ CleanLoad
  \/ CleanLenBefore
  \/ CleanTips
  \/ CleanSupernodes
  \/ CleanLenAfter
  \/ CleanWrite
  \/ CleanCheck

SpecClean == InitClean /\ [][NextClean]_vars

\* the passes in the order the claim gives them, the writing of the
\* output graph last
PassOrder == <<"len_before", "tips", "supernodes", "len_after", "write">>
Rank(pass) == CHOOSE i \in 1..Len(PassOrder) : PassOrder[i] = pass
Logged(pass) == \E i \in 1..Len(cln.log) : cln.log[i].pass = pass

UnusedRecsOf(w) == [i \in 1..w.num_unused |-> w.unused_paths[i - 1]]
CurrNewRecsOf(w) == [i \in 1..(w.num_curr + w.num_new) |-> w.curr_paths[i - 1]]
CounterRecsOf(w) == [i \in 1..w.num_counter |-> w.counter_paths[i - 1]]
RangeOf(q) == {q[i] : i \in 1..Len(q)}

\* the records of a list whose path proposes b and has not ended
Survivors(w, recs, b) ==
  SelectSeq(recs, LAMBDA p : /\ NextBase(w, p) = b
                             /\ w.allpaths[p].pos + 1 < w.allpaths[p].len)

\* the step is a graph_traverse_force_jump call with the given fork flag
JumpStep(fork) == nops' = nops + 1 /\ ret'.op = "jump" /\ ret'.fork = fork

\* C6: a forced move with fork = true keeps, of the current paths followed
\* by the new paths, exactly those that proposed the last nucleotide b of
\* the new bkmer and had pos + 1 < len, in their order and with pos one
\* higher; the counter paths are filtered and advanced by the same rule;
\* every other record of the three lists is unused before the pick-up at the
\* new node, and at that point no path is new.
C6_ForkFilters ==
  [][JumpStep(TRUE) =>
       LET b == ret'.bkmer[Len(ret'.bkmer)]
           sc == Survivors(wlk, CurrNewRecsOf(wlk), b)
           sk == Survivors(wlk, CounterRecsOf(wlk), b)
           Aged(p) == PathOf(wlk', p) = [PathOf(wlk, p) EXCEPT !.pos = @ + 1]
       IN /\ wlk'.num_curr = Len(sc)
          /\ \A i \in 1..Len(sc) : wlk'.curr_paths[i - 1] = sc[i] /\ Aged(sc[i])
          /\ wlk'.num_counter = Len(sk)
          /\ \A i \in 1..Len(sk) : wlk'.counter_paths[i - 1] = sk[i] /\ Aged(sk[i])
          /\ ((RangeOf(CurrNewRecsOf(wlk)) \cup RangeOf(CounterRecsOf(wlk)))
                 \ (RangeOf(sc) \cup RangeOf(sk))) \subseteq mid'.unused
          /\ mid'.num_new = 0]_vars

\* after a fork move: a path that was new and a counter path survived, and
\* a path was dropped
C6_Witness ==
  /\ ret.op = "jump" /\ ret.fork
  /\ mid.was_new >= 1 /\ wlk.num_curr > mid.was_curr
  /\ wlk.num_curr < mid.was_curr + mid.was_new
  /\ wlk.num_counter >= 1

\* the entries chained at a node, from db_node_paths(node) along prev
RECURSIVE ChainFrom(_)
ChainFrom(index) ==
  IF index = PATH_NULL THEN <<>> ELSE <<index>> \o ChainFrom(PathEntries[index].prev)

\* the chained entries of one orientation that carry the colour, in chain order
Matching(node, orient, colour) ==
  SelectSeq(ChainFrom(db_node_paths(node)),
            LAMBDA x : PathEntries[x].orient = orient /\ colour \in PathEntries[x].cols)

\* a stored entry as a path at the given pos
StoredAt(x, pos) ==
  [pos |-> pos, len |-> Len(PathEntries[x].bases), bases |-> PathEntries[x].bases]

\* C7: a forced move with fork = false changes no path's pos and drops no
\* path: the current paths become the previous current paths followed by
\* the previous new paths, the counter paths stay, the anchor is the given
\* node and bkmer with the orientation recomputed from the node's stored
\* k-mer, and the new paths are the entries chained at the node that match
\* the new orientation and the walker's colour, in chain order, at pos 0.
C7_PlainJump ==
  [][JumpStep(FALSE) =>
       LET kept == CurrNewRecsOf(wlk)
           bkey == db_node_bkmer(ret'.node)
           new == Matching(ret'.node, wlk'.orient, wlk'.colour)
       IN /\ wlk'.num_curr = Len(kept)
          /\ \A i \in 1..Len(kept) :
                wlk'.curr_paths[i - 1] = kept[i] /\ PathOf(wlk', kept[i]) = PathOf(wlk, kept[i])
          /\ CounterRecsOf(wlk') = CounterRecsOf(wlk)
          /\ CounterPathsOf(wlk') = CounterPathsOf(wlk)
          /\ wlk'.node = ret'.node /\ wlk'.bkmer = ret'.bkmer
          /\ wlk'.colour = wlk.colour
          /\ wlk'.orient = IF ret'.bkmer = bkey THEN FORWARD ELSE REVERSE
          /\ NewPathsOf(wlk') = [i \in 1..Len(new) |-> StoredAt(new[i], 0)]]_vars

\* after a plain move: new paths became current, a counter path was held,
\* new paths were picked up, the walker faces backwards and a chained entry
\* was passed over
C7_Witness ==
  /\ ret.op = "jump" /\ ~ret.fork
  /\ mid.was_new >= 1 /\ wlk.num_curr = mid.was_curr + mid.was_new
  /\ wlk.num_counter >= 1 /\ wlk.num_new >= 1
  /\ wlk.num_new < Len(ChainFrom(db_node_paths(wlk.node)))

\* the step is a graph_walker_add_counter_paths call
AddStep == nops' = nops + 1 /\ ret'.op = "add_counter"

\* the counter paths one predecessor contributes
Contribution(colour, pr) ==
  LET m == Matching(pr[1], pr[2], colour)
  IN IF edges_get_outdegree(db_node_union_edges(pr[1]), pr[2]) > 1
     THEN LET long == SelectSeq(m, LAMBDA x : Len(PathEntries[x].bases) > 1)
          IN [i \in 1..Len(long) |-> StoredAt(long[i], 1)]
     ELSE [i \in 1..Len(m) |-> StoredAt(m[i], 0)]

RECURSIVE Contributions(_, _)
Contributions(colour, prev) ==
  IF prev = <<>> THEN <<>>
  ELSE Contribution(colour, Head(prev)) \o Contributions(colour, Tail(prev))

\* C8 as claimed: every counter path graph_walker_add_counter_paths appends
\* has pos = 1 and len > 1 and comes from a predecessor of out-degree > 1.
C8_AsClaimed ==
  [][AddStep =>
       \A i \in (wlk.num_counter + 1)..wlk'.num_counter :
          LET P == CounterPathsOf(wlk')[i]
          IN P.pos = 1 /\ P.len > 1]_vars

\* C8: graph_walker_add_counter_paths appends, for each predecessor in
\* turn, the entries chained at it that match the given orientation and the
\* walker's colour: from a predecessor of out-degree > 1 those of len > 1,
\* at pos 1, the records of the others going back to the unused pool; from a
\* predecessor of out-degree <= 1 all of them, at pos 0.  The counter paths
\* held before, the current and the new paths are left alone.
C8_CounterPathsAdded ==
  [][AddStep =>
       LET added == Contributions(wlk.colour, ret'.prev)
       IN /\ CounterPathsOf(wlk') = CounterPathsOf(wlk) \o added
          /\ \A i \in 1..wlk.num_counter : wlk'.counter_paths[i - 1] = wlk.counter_paths[i - 1]
          /\ wlk'.num_unused =
               wlk.num_unused + (wlk'.max_num_paths - wlk.max_num_paths) - Len(added)
          /\ CurrNewRecsOf(wlk') = CurrNewRecsOf(wlk)
          /\ CurrPathsOf(wlk') = CurrPathsOf(wlk) /\ NewPathsOf(wlk') = NewPathsOf(wlk)
          /\ wlk'.num_curr = wlk.num_curr /\ wlk'.num_new = wlk.num_new]_vars

\* counter paths were added from a predecessor of out-degree > 1 that also
\* has a chained entry of len 1
C8_Witness ==
  /\ ret.op = "add_counter"
  /\ \E i \in 1..Len(ret.prev) :
        /\ edges_get_outdegree(db_node_union_edges(ret.prev[i][1]), ret.prev[i][2]) > 1
        /\ Contribution(wlk.colour, ret.prev[i]) # <<>>
        /\ Len(Contribution(wlk.colour, ret.prev[i]))
             < Len(Matching(ret.prev[i][1], ret.prev[i][2], wlk.colour))

\* every record of the pool is in exactly one of the lists
Partitioned(w) ==
  LET all == UnusedRecsOf(w) \o CurrNewRecsOf(w) \o CounterRecsOf(w)
  IN /\ Len(all) = w.max_num_paths
     /\ RangeOf(all) = 0..(w.max_num_paths - 1)

\* C9 (as claimed): from graph_walker_alloc on, every record of the pool is
\* in exactly one of unused, current, new and counter, so the four counts add
\* up to max_num_paths.  graph_walker_alloc does not assign num_new, so the
\* sum directly after it is whatever the caller's memory makes it.
C9_AsClaimed ==
  wlk.num_unused + wlk.num_curr + wlk.num_new + wlk.num_counter = wlk.max_num_paths

\* What does hold of the pool.  From the first graph_walker_init on, through
\* forced moves, counter-path pick-ups, pool growth and graph_walker_finish,
\* every record of the pool is in exactly one of unused, current, new and
\* counter, so the four counts add up to max_num_paths; after
\* graph_walker_finish all records are unused.  Directly after
\* graph_walker_alloc all records are unused and num_curr and num_counter
\* are 0.
C9_PoolConserved ==
  /\ pc = "alloc" =>
       /\ RangeOf(UnusedRecsOf(wlk)) = 0..(wlk.max_num_paths - 1)
       /\ wlk.num_unused = wlk.max_num_paths
       /\ wlk.num_curr = 0 /\ wlk.num_counter = 0
  /\ pc # "alloc" =>
       /\ Partitioned(wlk)
       /\ wlk.num_unused + wlk.num_curr + wlk.num_new + wlk.num_counter
            = wlk.max_num_paths
  /\ pc = "finished" =>
       /\ wlk.num_unused = wlk.max_num_paths
       /\ wlk.num_curr = 0 /\ wlk.num_new = 0 /\ wlk.num_counter = 0

\* the pool has grown and holds current, new and counter paths at once
C9_Witness ==
  /\ pc = "active" /\ wlk.max_num_paths > 2
  /\ wlk.num_curr >= 1 /\ wlk.num_new >= 1 /\ wlk.num_counter >= 1

\* graph_walker_finish was called on a grown pool that held counter paths
C9_FinishedReached ==
  pc = "finished" /\ wlk.max_num_paths > 2 /\ ret.op = "finish"
(***************************************************************************)
(* The k-mer hash table during a clean run: the graph files are loaded     *)
(* k-mer by k-mer, the cleaning passes remove nodes, ctx_check compares    *)
(* the maintained counter with a count of the occupied slots.              *)
(***************************************************************************)
\* the number of slots of the table (slot 0 is a sentinel)
HtCapacity == 4
\* the graph files hold at most this many k-mer records
MaxLoads == 5

\* an empty slot
Unset == <<>>
\* the k-mers a graph file may hold (K = 3): AAC and GTT, ACT and AGT are
\* reverse complements of each other; ACA, CCA and TCA fall on one slot
FileKmers ==
  {<<0, 0, 1>>, <<2, 3, 3>>, <<0, 1, 3>>, <<0, 2, 3>>, <<0, 1, 0>>, <<1, 1, 0>>, <<3, 1, 0>>}

\* a is before b in lexicographic order (sequences of one length)
KmerLess(a, b) ==
  \E i \in 1..Len(a) : a[i] < b[i] /\ \A j \in 1..(i - 1) : a[j] = b[j]

\* the canonical form: the smaller of the k-mer and its reverse complement
db_node_get_key(bk) ==
  LET rc == binary_kmer_reverse_complement(bk)
  IN IF KmerLess(rc, bk) THEN rc ELSE bk

RECURSIVE KmerValue(_)
\* the k-mer read as a number in base 4
KmerValue(bk) == IF bk = <<>> THEN 0 ELSE 4 * KmerValue(SubSeq(bk, 1, Len(bk) - 1)) + bk[Len(bk)]

\* the slot probing starts from
hash64(bkey, capacity) == (KmerValue(bkey) % capacity) + 1

\* the table after calloc: every slot empty, no k-mer counted
hash_table_alloc(capacity) ==
  [capacity |-> capacity, table |-> [h \in 1..capacity |-> Unset], num_kmers |-> 0]

\* the i-th slot probed for bkey (i from 0), linear probing
ProbeSlot(ht, bkey, i) == ((hash64(bkey, ht.capacity) - 1 + i) % ht.capacity) + 1

\* the probes that end the search for bkey: an empty slot or a match
ProbeHits(ht, bkey) ==
  {i \in 0..(ht.capacity - 1) : ht.table[ProbeSlot(ht, bkey, i)] \in {Unset, bkey}}

\* faulty variant: the counter goes up on every call, found or inserted
hash_table_find_or_insert_CountsCalls(ht, bk) ==
  LET bkey == db_node_get_key(bk)
      hits == ProbeHits(ht, bkey)
  IN IF hits = {} THEN [ht |-> ht, hkey |-> 0, inserted |-> FALSE, full |-> TRUE]
     ELSE LET i == CHOOSE a \in hits : \A b \in hits : a <= b
              h == ProbeSlot(ht, bkey, i)
          IN [ht |-> [ht EXCEPT !.table[h] = bkey, !.num_kmers = @ + 1],
              hkey |-> h, inserted |-> (ht.table[h] = Unset), full |-> FALSE]

\* find_or_insert: canonicalise, probe; at a match return the slot, at an
\* empty slot store the key there and count it; give up when the probes
\* are used up
hash_table_find_or_insert(ht, bk) ==
  LET bkey == db_node_get_key(bk)
      hits == ProbeHits(ht, bkey)
  IN IF hits = {} THEN [ht |-> ht, hkey |-> 0, inserted |-> FALSE, full |-> TRUE]
     ELSE LET i == CHOOSE a \in hits : \A b \in hits : a <= b
              h == ProbeSlot(ht, bkey, i)
          IN IF ht.table[h] = Unset
             THEN [ht |-> [ht EXCEPT !.table[h] = bkey, !.num_kmers = @ + 1],
                   hkey |-> h, inserted |-> TRUE, full |-> FALSE]
             ELSE [ht |-> ht, hkey |-> h, inserted |-> FALSE, full |-> FALSE]

\* remove: the slot is marked empty and the k-mer no longer counted
hash_table_delete(ht, hkey) ==
  [ht EXCEPT !.table[hkey] = Unset, !.num_kmers = @ - 1]

\* the number of occupied slots, by a scan of the table
hash_table_count_kmers(ht) == Cardinality({h \in 1..ht.capacity : ht.table[h] # Unset})

\* the clean run as the hash table sees it
GraphStart ==
  [at |-> "load", ht |-> hash_table_alloc(HtCapacity), nloads |-> 0,
   initial_nkmers |-> 0, removed_nkmers |-> 0, last |-> "none"]

InitGraph ==
  /\ wlk = graph_walker_alloc(CHOOSE w \in UninitWalkers : w.num_new = 0)
  /\ pc = "alloc"
  /\ nops = 0
  /\ ret = NoRet
  /\ mid = NoRet
  /\ cln = GraphStart

\* graph_load reads one k-mer record and puts it into the table; a table
\* with no room is fatal
GraphLoadKmer(bk) ==
  /\ cln.at = "load" /\ cln.nloads < MaxLoads
  /\ LET r == hash_table_find_or_insert(cln.ht, bk)
     IN cln' = IF r.full THEN [cln EXCEPT !.at = "die", !.last = "full"]
               ELSE [cln EXCEPT !.ht = r.ht, !.nloads = @ + 1,
                                !.last = IF r.inserted THEN "inserted" ELSE "found"]
  /\ CleanFrame

\* line 310: initial_nkmers = db_graph.ht.num_kmers
GraphLoaded ==
  /\ cln.at = "load"
  /\ cln' = [cln EXCEPT !.at = "tips", !.initial_nkmers = cln.ht.num_kmers, !.last = "loaded"]
  /\ CleanFrame

\* a cleaning pass (tip clipping, then supernode removal) removes a live node
GraphRemoveNode(hkey) ==
  /\ cln.at \in {"tips", "supernodes"}
  /\ cln.ht.table[hkey] # Unset
  /\ cln' = [cln EXCEPT !.ht = hash_table_delete(cln.ht, hkey), !.last = "removed"]
  /\ CleanFrame

\* the pass is over; after the last one, line 390:
\* removed_nkmers = initial_nkmers - db_graph.ht.num_kmers
GraphPassDone ==
  /\ cln.at \in {"tips", "supernodes"}
  /\ cln' = IF cln.at = "tips" THEN [cln EXCEPT !.at = "supernodes", !.last = "pass"]
            ELSE [cln EXCEPT !.at = "check", !.last = "pass",
                             !.removed_nkmers = cln.initial_nkmers - cln.ht.num_kmers]
  /\ CleanFrame

\* line 402: ctx_check(db_graph.ht.num_kmers == hash_table_count_kmers(&db_graph.ht))
GraphCheck ==
  /\ cln.at = "check"
  /\ cln' = [cln EXCEPT
               !.at = IF cln.ht.num_kmers = hash_table_count_kmers(cln.ht)
                      THEN "exit" ELSE "die",
               !.last = "check"]
  /\ CleanFrame

NextGraph ==
  \/ \E bk \in FileKmers : GraphLoadKmer(bk)
  \/ GraphLoaded
  \/ \E hkey \in 1..HtCapacity : GraphRemoveNode(hkey)
  \/ GraphPassDone
  \/ GraphCheck

SpecGraph == InitGraph /\ [][NextGraph]_vars

(***************************************************************************)
(* The hash table in concurrent-insert mode: worker threads call           *)
(* find_or_insert, each read of a slot and each compare-and-swap one       *)
(* atomic step.                                                            *)
(***************************************************************************)
\* the worker threads, and the k-mers each of them inserts at most
MaxThreads == 2
MaxInserts == 2

\* the table empty, every worker between two calls; asked holds the
\* canonical k-mers the workers have been given so far
InsertStart ==
  [at |-> "insert", ht |-> hash_table_alloc(HtCapacity), asked |-> {},
   thr |-> [t \in 1..MaxThreads |->
              [at |-> "idle", cnt |-> 0, bkey |-> Unset, i |-> 0, h |-> 0, log |-> <<>>]]]

InitInsert ==
  /\ wlk = graph_walker_alloc(CHOOSE w \in UninitWalkers : w.num_new = 0)
  /\ pc = "alloc"
  /\ nops = 0
  /\ ret = NoRet
  /\ mid = NoRet
  /\ cln = InsertStart

\* find_or_insert returns (slot, inserted) to worker t
InsertReturn(thr, h, inserted) ==
  [thr EXCEPT !.at = "idle",
              !.log = Append(@, [bkey |-> thr.bkey, hkey |-> h, inserted |-> inserted])]

\* the probe moves on to the next slot; the probes used up is CapacityExhausted
InsertNextProbe(ht, thr) ==
  IF thr.i + 1 >= ht.capacity THEN [thr EXCEPT !.at = "exhausted"]
  ELSE [thr EXCEPT !.at = "probe", !.i = @ + 1]

\* worker t calls find_or_insert(bk): canonicalise, start at hash64 mod
\* capacity; the k-mers given to the workers leave a slot of the table free
InsertCall(t, bk) ==
  /\ cln.at = "insert" /\ cln.thr[t].at = "idle" /\ cln.thr[t].cnt < MaxInserts
  /\ Cardinality(cln.asked \cup {db_node_get_key(bk)}) < HtCapacity
  /\ cln' = [cln EXCEPT !.thr[t].at = "probe", !.thr[t].i = 0, !.thr[t].cnt = @ + 1,
                        !.thr[t].bkey = db_node_get_key(bk),
                        !.asked = @ \cup {db_node_get_key(bk)}]
  /\ CleanFrame

\* worker t reads the slot of its probe: a match is returned, an empty slot
\* goes to the compare-and-swap, another k-mer to the next probe
InsertProbe(t) ==
  /\ cln.at = "insert" /\ cln.thr[t].at = "probe"
  /\ LET me == cln.thr[t]
         h == ProbeSlot(cln.ht, me.bkey, me.i)
     IN cln' = IF cln.ht.table[h] = me.bkey
               THEN [cln EXCEPT !.thr[t] = InsertReturn(me, h, FALSE)]
               ELSE IF cln.ht.table[h] = Unset
               THEN [cln EXCEPT !.thr[t].at = "cas", !.thr[t].h = h]
               ELSE [cln EXCEPT !.thr[t] = InsertNextProbe(cln.ht, me)]
  /\ CleanFrame

\* worker t does its compare-and-swap of the slot from empty to bkey: when
\* it wins, the k-mer is counted and (slot, true) returned; when it loses,
\* the probe is retried on the next slot
InsertCas(t) ==
  /\ cln.at = "insert" /\ cln.thr[t].at = "cas"
  /\ LET me == cln.thr[t]
     IN cln' = IF cln.ht.table[me.h] = Unset
               THEN [cln EXCEPT !.ht.table[me.h] = me.bkey,
                                !.ht.num_kmers = @ + 1,
                                !.thr[t] = InsertReturn(me, me.h, TRUE)]
               ELSE [cln EXCEPT !.thr[t] = InsertNextProbe(cln.ht, me)]
  /\ CleanFrame

\* no call is under way: the workers are joined
InsertJoin ==
  /\ cln.at = "insert"
  /\ \A t \in 1..MaxThreads : cln.thr[t].at = "idle"
  /\ cln' = [cln EXCEPT !.at = "joined"]
  /\ CleanFrame

NextInsert ==
  \/ \E t \in 1..MaxThreads, bk \in FileKmers : InsertCall(t, bk)
  \/ \E t \in 1..MaxThreads : InsertProbe(t)
  \/ \E t \in 1..MaxThreads : InsertCas(t)
  \/ InsertJoin

SpecInsert == InitInsert /\ [][NextInsert]_vars

(***************************************************************************)
(* Packed paths: four bases to a byte.  A byte is a number in 0..255, a    *)
(* buffer a function on 0..n-1.                                            *)
(***************************************************************************)
\* the longest sequence packed
MaxSeqLen == 5
\* the buffer and the copy of test_pack_cpy
OutBytes == 100
ZeroBytes == 10
CpyLen == 15

\* 4^k, the weight of base k of a byte
Pow4(k) == 4 ^ k

\* the number of bytes n bases take
PackedBytes(n) == (n + 3) \div 4

\* base p of a packed buffer: bits 2p, 2p+1 of byte p/4
PackedBase(packed, p) == (packed[p \div 4] \div Pow4(p % 4)) % 4

\* pack_bases: base i in bits (2i, 2i+1) of byte i/4; unused bits are zero
pack_bases(bases) ==
  LET n == Len(bases)
  IN [b \in 0..(PackedBytes(n) - 1) |->
        LET nuc(k) == IF 4 * b + k < n THEN bases[4 * b + k + 1] ELSE 0
        IN nuc(0) + 4 * nuc(1) + 16 * nuc(2) + 64 * nuc(3)]

\* unpack_bases: the first n bases of a packed buffer
unpack_bases(packed, n) == [i \in 1..n |-> PackedBase(packed, i - 1)]

\* faulty variant: one byte more than the bases need is written
packed_cpy_OneMore(dst, at, src, shift, len) ==
  [b \in DOMAIN dst |->
     IF b < at \/ b > at + PackedBytes(len - shift) THEN dst[b] ELSE 0]

\* faulty variant: the copy starts at the byte that holds base shift
packed_cpy_ByteAligned(dst, at, src, shift, len) ==
  LET n == len - shift
  IN [b \in DOMAIN dst |->
        IF b < at \/ b >= at + PackedBytes(n) THEN dst[b]
        ELSE src[(b - at) + shift \div 4]]

\* packed_cpy(dst + at, src, shift, len): the len - shift bases of src from
\* base shift on go to dst + at from base 0 on, in whole bytes, the unused
\* bits of the last byte zero
packed_cpy(dst, at, src, shift, len) ==
  LET n == len - shift
  IN [b \in DOMAIN dst |->
        IF b < at \/ b >= at + PackedBytes(n) THEN dst[b]
        ELSE LET nuc(k) == IF 4 * (b - at) + k < n
                           THEN PackedBase(src, shift + 4 * (b - at) + k) ELSE 0
             IN nuc(0) + 4 * nuc(1) + 16 * nuc(2) + 64 * nuc(3)]

\* a 32-bit word, as the set of the positions of its bits that are set; the
\* word of a number below 2^31
Word(n) == {b \in 0..30 : (n \div 2 ^ b) % 2 = 1}

\* the number a word with bit 31 clear stands for
RECURSIVE Number(_)
Number(w) ==
  IF w = {} THEN 0
  ELSE LET b == CHOOSE x \in w : TRUE IN 2 ^ b + Number(w \ {b})

\* faulty variant: the orientation goes to bit 30
packedpath_combine_lenorient_Bit30(len, orient) ==
  Word(len) \cup ({b + 30 : b \in Word(orient)} \cap 0..31)

\* len | (orient << 31)
packedpath_combine_lenorient(len, orient) ==
  Word(len) \cup ({b + 31 : b \in Word(orient)} \cap 0..31)

\* merged & PP_LENMASK, the low 31 bits
packedpath_len(merged) == Number(merged \cap 0..30)

\* merged >> 31
packedpath_or(merged) == Number({b - 31 : b \in {x \in merged : x >= 31}})

\* the sequences of bases of a length up to n
BaseSeqs(n) == UNION {[1..m -> Nucleotide] : m \in 0..n}

\* manual_test_pack_cpy_unpack(seq, len, shift), test_pack_cpy and one turn
\* of test_len_orient at their start; the lengths of test_len_orient are 0,
\* the powers of two below 2^31, their predecessors and 2^31 - 1
PackedStart ==
  LET Lengths == {0} \cup {2 ^ k : k \in 0..30} \cup {2 ^ k - 1 : k \in 2..30}
                     \cup {2 ^ 30 + (2 ^ 30 - 1)}
  IN
  {[test |-> "roundtrip", at |-> "pack", seq |-> q, shift |-> sh,
    packed |-> <<>>, packed2 |-> <<>>, bases2 |-> <<>>] :
      q \in BaseSeqs(MaxSeqLen), sh \in 0..MaxSeqLen}
  \cup
  {[test |-> "zeros", at |-> "cpy", shift |-> 0,
    d0 |-> [b \in 0..(ZeroBytes - 1) |-> 0],
    out |-> [b \in 0..(OutBytes - 1) |-> 255]]}
  \cup
  {[test |-> "lenorient", at |-> "combine", len |-> l, orient |-> o,
    merged |-> {}, len2 |-> 0, orient2 |-> FORWARD] :
      l \in Lengths, o \in Orientation}

InitPacked ==
  /\ wlk = graph_walker_alloc(CHOOSE w \in UninitWalkers : w.num_new = 0)
  /\ pc = "alloc"
  /\ nops = 0
  /\ ret = NoRet
  /\ mid = NoRet
  /\ cln \in {t \in PackedStart : t.test = "roundtrip" => t.shift <= Len(t.seq)}

\* line 153: pack_bases(packed, bases, len)
PackBases ==
  /\ cln.test = "roundtrip" /\ cln.at = "pack"
  /\ cln' = [cln EXCEPT !.at = "cpy", !.packed = pack_bases(cln.seq)]
  /\ CleanFrame

\* line 156: packed_cpy(packed2, packed, shift, len); packed2 is not initialised
PackedCpy ==
  /\ cln.test = "roundtrip" /\ cln.at = "cpy"
  /\ LET len == Len(cln.seq)
         fresh == [b \in 0..(PackedBytes(len) - 1) |-> Junk]
     IN cln' = [cln EXCEPT !.at = "unpack",
                           !.packed2 = packed_cpy(fresh, 0, cln.packed, cln.shift, len)]
  /\ CleanFrame

\* line 159: unpack_bases(packed2, bases2, outlen)
UnpackBases ==
  /\ cln.test = "roundtrip" /\ cln.at = "unpack"
  /\ cln' = [cln EXCEPT !.at = "done",
                        !.bases2 = unpack_bases(cln.packed2, Len(cln.seq) - cln.shift)]
  /\ CleanFrame

\* lines 51-52: one turn of the loop, packed_cpy_fast(out+1, d0, shift, 15)
ShiftCopyZeros ==
  /\ cln.test = "zeros" /\ cln.at = "cpy" /\ cln.shift < 4
  /\ cln' = [cln EXCEPT !.shift = @ + 1,
                        !.out = packed_cpy(cln.out, 1, cln.d0, cln.shift, CpyLen)]
  /\ CleanFrame

\* lines 194-196: one turn of the loop of test_len_orient
LenOrient ==
  /\ cln.test = "lenorient" /\ cln.at = "combine"
  /\ LET merged == packedpath_combine_lenorient(cln.len, cln.orient)
     IN cln' = [cln EXCEPT !.at = "done",
                           !.merged = merged,
                           !.len2 = packedpath_len(merged),
                           !.orient2 = packedpath_or(merged)]
  /\ CleanFrame

NextPacked ==
  \/ LenOrient
  \/ PackBases
  \/ PackedCpy
  \/ UnpackBases
  \/ ShiftCopyZeros

SpecPacked == InitPacked /\ [][NextPacked]_vars

(***************************************************************************)
(* The path store: an arena of entries, a chain of entries per node from   *)
(* the node's head offset.  Writers append concurrently: the head is read  *)
(* and the chain scanned for a match, the bytes are reserved by a          *)
(* fetch-and-add, the entry is written, the head compare-and-swapped.      *)
(***************************************************************************)
\* the bytes of the arena
ArenaBytes == 48
\* the writers
Writers == {1, 2}

\* iter(hkey): the offsets met from the head of the node on, following
\* prev to the null sentinel; fuel bounds the walk, a walk it stops is a
\* cycle and ends in -1
path_store_iter(store, hkey) ==
  LET RECURSIVE chain(_, _)
      chain(off, fuel) ==
        IF off = PATH_NULL THEN <<>>
        ELSE IF fuel = 0 \/ off \notin DOMAIN store.arena THEN <<-1>>
        ELSE <<off>> \o chain(store.arena[off].prev, fuel - 1)
  IN chain(store.heads[hkey], Cardinality(DOMAIN store.arena) + 1)

\* faulty variant: the scan does not compare the orientation
path_store_match_AnyOrient(arena, chain, orient, bases) ==
  {chain[j] : j \in {i \in 1..Len(chain) :
      /\ arena[chain[i]].len = Len(bases) /\ arena[chain[i]].bases = bases}}

\* the entries of a chain with the orientation, length and bases of the
\* path to append
path_store_match(arena, chain, orient, bases) ==
  {chain[j] : j \in {i \in 1..Len(chain) :
      /\ arena[chain[i]].orient = orient
      /\ arena[chain[i]].len = Len(bases) /\ arena[chain[i]].bases = bases}}

\* the paths the writers append: (FORWARD, ACG) to node 1 in colour 0 and
\* in colour 2, and paths that differ from it in the orientation, in the
\* length and the bases, in the node
PathInputs ==
  {[hkey |-> 1, orient |-> FORWARD, bases |-> <<0, 1, 2>>, col |-> 0],
   [hkey |-> 1, orient |-> FORWARD, bases |-> <<0, 1, 2>>, col |-> 2],
   [hkey |-> 1, orient |-> REVERSE, bases |-> <<0, 1, 2>>, col |-> 0],
   [hkey |-> 1, orient |-> FORWARD, bases |-> <<0, 1, 2, 0, 1>>, col |-> 2],
   [hkey |-> 2, orient |-> FORWARD, bases |-> <<0, 1, 2>>, col |-> 2]}

\* an empty store, every writer between two calls
InitPaths ==
  /\ wlk = graph_walker_alloc(CHOOSE w \in UninitWalkers : w.num_new = 0)
  /\ pc = "alloc"
  /\ nops = 0
  /\ ret = NoRet
  /\ mid = NoRet
  /\ cln = [at |-> "append", arena |-> <<>>, used |-> 0,
            heads |-> [n \in 1..2 |-> PATH_NULL],
            order |-> [n \in 1..2 |-> <<>>], pub |-> <<>>, appended |-> {},
            overlap |-> FALSE,
            thr |-> [t \in Writers |->
                       [at |-> "idle", cnt |-> 0, hkey |-> 0, orient |-> FORWARD,
                        bases |-> <<>>, col |-> 0, seen |-> PATH_NULL, mine |-> PATH_NULL]]]

\* append has had its effect and returns to writer t
PathReturn(t) ==
  [cln EXCEPT !.thr[t] = [at |-> "idle", cnt |-> @.cnt, hkey |-> 0, orient |-> FORWARD,
                          bases |-> <<>>, col |-> 0, seen |-> PATH_NULL,
                          mine |-> PATH_NULL],
              !.appended = @ \cup {[hkey |-> cln.thr[t].hkey, orient |-> cln.thr[t].orient,
                                    bases |-> cln.thr[t].bases, col |-> cln.thr[t].col]}]

\* writer t calls append(hkey, orient, bases, {col})
PathAppend(t, hkey, orient, bases, col) ==
  /\ cln.at = "append" /\ cln.thr[t].at = "idle" /\ cln.thr[t].cnt < MaxInserts
  /\ cln' = [cln EXCEPT
               !.thr[t] = [@ EXCEPT !.at = "scan", !.cnt = @ + 1, !.hkey = hkey,
                                    !.orient = orient, !.bases = bases, !.col = col],
               !.overlap = @ \/ \E u \in Writers : cln.thr[u].at # "idle"]
  /\ CleanFrame

\* writer t reads the head of its node and walks the chain from it: a match
\* takes the colour into its bitmap and append returns; with no match the
\* bytes are reserved, or, if they were before a lost compare-and-swap,
\* written again
PathScan(t) ==
  /\ cln.at = "append" /\ cln.thr[t].at = "scan"
  /\ LET me == cln.thr[t]
         chain == path_store_iter(cln, me.hkey)
         found == path_store_match(cln.arena, chain, me.orient, me.bases)
     IN cln' = IF found # {}
               THEN LET off == CHOOSE o \in found : TRUE
                    IN [PathReturn(t) EXCEPT !.arena[off].cols = @ \cup {me.col}]
               ELSE [cln EXCEPT !.thr[t].seen = cln.heads[me.hkey],
                                !.thr[t].at = IF me.mine = PATH_NULL THEN "reserve"
                                              ELSE "write"]
  /\ CleanFrame

\* writer t reserves the bytes of its entry, prev (an 8 byte offset), one
\* byte of colour bitmap, lenorient and the packed bases: fetch-and-add on
\* the bump pointer; an arena with too few bytes left is ArenaFull
PathReserve(t) ==
  /\ cln.at = "append" /\ cln.thr[t].at = "reserve"
  /\ LET size == 8 + 1 + 4 + PackedBytes(Len(cln.thr[t].bases))
     IN cln' = IF cln.used + size > ArenaBytes
               THEN [cln EXCEPT !.at = "full", !.thr[t].at = "full"]
               ELSE [cln EXCEPT !.used = @ + size,
                                !.thr[t].mine = cln.used, !.thr[t].at = "write",
                                !.arena = @ @@ (cln.used :>
                                   [written |-> FALSE, size |-> size, prev |-> Junk,
                                    cols |-> {}, orient |-> Junk, len |-> Junk,
                                    bases |-> <<>>])]
  /\ CleanFrame

\* writer t writes its entry, prev the head it has seen
PathWrite(t) ==
  /\ cln.at = "append" /\ cln.thr[t].at = "write"
  /\ LET me == cln.thr[t]
     IN cln' = [cln EXCEPT !.thr[t].at = "publish",
                           !.arena[me.mine] =
                              [written |-> TRUE, size |-> @.size, prev |-> me.seen,
                               cols |-> {me.col}, orient |-> me.orient,
                               len |-> Len(me.bases), bases |-> me.bases]]
  /\ CleanFrame

\* faulty variant: the head is stored, not compared
PathPublish_Store(t) ==
  /\ cln.at = "append" /\ cln.thr[t].at = "publish"
  /\ LET me == cln.thr[t]
     IN cln' = [PathReturn(t) EXCEPT !.heads[me.hkey] = me.mine,
                                     !.order[me.hkey] = Append(@, me.mine),
                                     !.pub = @ @@ (me.mine :> cln.arena[me.mine])]
  /\ CleanFrame

\* writer t compare-and-swaps the head of its node from the head it has
\* seen to its entry; when the head has moved, the walk is made again.
\* order and pub keep the offsets in the order of the successful
\* compare-and-swaps and the entries as they were then
PathPublish(t) ==
  /\ cln.at = "append" /\ cln.thr[t].at = "publish"
  /\ LET me == cln.thr[t]
     IN cln' = IF cln.heads[me.hkey] = me.seen
               THEN [PathReturn(t) EXCEPT !.heads[me.hkey] = me.mine,
                                          !.order[me.hkey] = Append(@, me.mine),
                                          !.pub = @ @@ (me.mine :> cln.arena[me.mine])]
               ELSE [cln EXCEPT !.thr[t].at = "scan"]
  /\ CleanFrame

NextPaths ==
  \/ \E t \in Writers, p \in PathInputs :
          PathAppend(t, p.hkey, p.orient, p.bases, p.col)
  \/ \E t \in Writers : PathScan(t)
  \/ \E t \in Writers : PathReserve(t)
  \/ \E t \in Writers : PathWrite(t)
  \/ \E t \in Writers : PathPublish(t)

SpecPaths == InitPaths /\ [][NextPaths]_vars

(***************************************************************************)
(* Tip clipping.  The nodes of the graph are numbers, an edge a pair of    *)
(* nodes; a pass visits the live nodes that are not yet marked, in any     *)
(* order, and the whole run is two passes with the same length.            *)
(***************************************************************************)
\* the nodes of the largest graph, and the longest tip length asked for
MaxTipNodes == 5
MaxTipLen == 4

\* the graphs: nodes 1..n, edges from a node to one of the next two
TipGraphs ==
  {[n |-> n, edges |-> e] :
     n \in 1..MaxTipNodes,
     e \in SUBSET {d \in (1..MaxTipNodes) \X (1..MaxTipNodes) : d[1] < d[2] /\ d[2] <= d[1] + 2}}

\* faulty variant: the supernode of a node is the node alone
supernode_NoWalk(edges, v) == <<v>>

\* the supernode of node v, a maximal path on which every link is the only
\* edge out of its start and the only edge into its end
supernode(edges, v) ==
  LET outs(x) == {d[2] : d \in {e \in edges : e[1] = x}}
      ins(x) == {d[1] : d \in {e \in edges : e[2] = x}}
      on(q) == {q[j] : j \in 1..Len(q)}
      RECURSIVE fwd(_)
      fwd(q) ==
        LET nxt == outs(q[Len(q)])
        IN IF Cardinality(nxt) = 1 /\ Cardinality(UNION {ins(x) : x \in nxt}) = 1
              /\ nxt \cap on(q) = {}
           THEN fwd(q \o <<CHOOSE x \in nxt : TRUE>>) ELSE q
      RECURSIVE bwd(_)
      bwd(q) ==
        LET prv == ins(q[1])
        IN IF Cardinality(prv) = 1 /\ Cardinality(UNION {outs(x) : x \in prv}) = 1
              /\ prv \cap on(q) = {}
           THEN bwd(<<CHOOSE x \in prv : TRUE>> \o q) ELSE q
  IN bwd(fwd(<<v>>))

InitTips ==
  /\ wlk = graph_walker_alloc(CHOOSE w \in UninitWalkers : w.num_new = 0)
  /\ pc = "alloc"
  /\ nops = 0
  /\ ret = NoRet
  /\ mid = NoRet
  /\ cln \in {[at |-> "tips", max_tip_len |-> len, g0 |-> g, live |-> 1..g.n,
                edges |-> {d \in g.edges : d[2] <= g.n}, visited |-> {}, pass |-> 1,
                nremoved |-> 0, removed |-> <<>>, lost |-> {}, last |-> {}] :
                  g \in {h \in TipGraphs : \A d \in h.edges : d[2] <= h.n},
                  len \in 1..MaxTipLen}

\* the pass comes to the unvisited live node v: the supernode of v is
\* walked in both directions and marked visited; when it is shorter than
\* max_tip_len and has no edge into its first node or none out of its last,
\* its nodes are deleted and their bits cleared in the edges of the
\* neighbours that stay
TipVisit(v) ==
  /\ cln.at = "tips" /\ v \in cln.live \ cln.visited
  /\ LET snode == supernode(cln.edges, v)
         nodes == {snode[j] : j \in 1..Len(snode)}
         dead_end == \/ ~\E d \in cln.edges : d[2] = snode[1]
                     \/ ~\E d \in cln.edges : d[1] = snode[Len(snode)]
         cut == {d \in cln.edges : d[1] \in nodes \/ d[2] \in nodes}
     IN cln' = IF Len(snode) < cln.max_tip_len /\ dead_end
               THEN [cln EXCEPT !.visited = @ \cup nodes,
                                !.live = @ \ nodes,
                                !.edges = @ \ cut,
                                !.nremoved = @ + Cardinality(nodes),
                                !.lost = @ \cup (({d[1] : d \in cut} \cup {d[2] : d \in cut})
                                                   \ nodes),
                                !.last = nodes]
               ELSE [cln EXCEPT !.visited = @ \cup nodes, !.last = {}]
  /\ CleanFrame

\* faulty variant: the pass may end before every live node was visited
TipPassDone_Early ==
  /\ cln.at = "tips"
  /\ cln' = [cln EXCEPT !.at = IF cln.pass = 2 THEN "done" ELSE "tips",
                        !.pass = @ + 1, !.visited = {}, !.nremoved = 0,
                        !.removed = Append(@, cln.nremoved), !.last = {}]
  /\ CleanFrame

\* every live node was visited: the pass is over, the next one starts with
\* a clear visited array
TipPassDone ==
  /\ cln.at = "tips" /\ cln.live \subseteq cln.visited
  /\ cln' = [cln EXCEPT !.at = IF cln.pass = 2 THEN "done" ELSE "tips",
                        !.pass = @ + 1, !.visited = {}, !.nremoved = 0,
                        !.removed = Append(@, cln.nremoved), !.last = {}]
  /\ CleanFrame

NextTips ==
  \/ \E v \in 1..MaxTipNodes : TipVisit(v)
  \/ TipPassDone

SpecTips == InitTips /\ [][NextTips]_vars

(***************************************************************************)
(* Supernode cleaning with the threshold taken from the histogram of the   *)
(* supernode coverages: hist[c] is the number of supernodes of mean        *)
(* coverage c, c from 1 on.                                                *)
(***************************************************************************)
\* the bins of the histograms tried, and the largest count in a bin
MaxBins == 5
MaxCount == 2

\* the histograms: every one of MaxBins bins with counts up to MaxCount, and
\* the one of scenario S2
CovgHists == [1..MaxBins -> 0..MaxCount] \cup {<<20, 5, 2, 1, 0, 0, 1, 1, 1>>}

\* faulty variant: the first bin that is not below the bin before it
supernode_auto_threshold_FirstRise(hist) ==
  LET RECURSIVE scan(_)
      scan(c) == IF c > Len(hist) THEN 0
                 ELSE IF hist[c] >= hist[c - 1] THEN c ELSE scan(c + 1)
  IN scan(2)

\* the threshold read off the histogram: bins are scanned from c = 2 up, the
\* first at which the histogram has been falling and does not fall further
\* is returned, and 0 when the scan runs out of bins
supernode_auto_threshold(hist) ==
  LET RECURSIVE scan(_)
      scan(c) == IF c + 1 > Len(hist) THEN 0
                 ELSE IF hist[c] < hist[c - 1] /\ hist[c + 1] >= hist[c] THEN c
                 ELSE scan(c + 1)
  IN scan(2)

\* the graph is loaded: its supernodes by mean coverage, none removed
InitSnodes ==
  /\ wlk = graph_walker_alloc(CHOOSE w \in UninitWalkers : w.num_new = 0)
  /\ pc = "alloc"
  /\ nops = 0
  /\ ret = NoRet
  /\ mid = NoRet
  /\ cln \in {[at |-> "supernodes", hist |-> h, snodes |-> sn, threshold |-> 0,
                supernode_cleaning |-> TRUE] :
                  h \in CovgHists, sn \in SUBSET {1, 4, 40}}

\* lines 336-343: cleaning_remove_supernodes with no threshold and no depth
\* given takes the threshold from the histogram and removes the supernodes
\* of mean coverage below it; a threshold of 0 leaves the graph as it is
\* and turns supernode_cleaning off
SnodesAutoClean ==
  /\ cln.at = "supernodes"
  /\ LET threshold == supernode_auto_threshold(cln.hist)
     IN cln' = [cln EXCEPT !.at = "cleaned", !.threshold = threshold,
                           !.snodes = IF threshold = 0 THEN @
                                      ELSE {m \in @ : ~(m < threshold)},
                           !.supernode_cleaning = (threshold # 0)]
  /\ CleanFrame

SpecSnodes == InitSnodes /\ [][SnodesAutoClean]_vars

(***************************************************************************)
(* Properties of the clean command                                         *)
(***************************************************************************)
\* neither --tips nor --supernodes is on the command line
NeitherFlag == cln.cmd.tips = <<>> /\ ~cln.cmd.supernodes
\* the run went through all its statements and returned
Completed == cln.at = "exit"
\* cleaning_remove_supernodes was called and told to remove supernodes
SnodesCleaning == cln.snodes_called # <<>> /\ cln.snodes_called[1].clean

\* C11: default cleaning.  With neither --tips nor --supernodes and an
\* output path, a run that completes has clipped tips with L = 2 * kmer_size
\* and has run supernode cleaning; with --tips L it has clipped tips with
\* exactly that L, which is > 1; with neither flag and no output path no
\* cleaning runs and no graph is written; a graph is written only when an
\* output path was given.
C11_DefaultCleaning ==
  /\ (Completed /\ NeitherFlag /\ cln.cmd.out # "") =>
        /\ Logged("tips") /\ cln.clip_len = 2 * cln.kmer_size
        /\ Logged("supernodes") /\ SnodesCleaning
  /\ (Completed /\ cln.cmd.tips # <<>>) =>
        /\ Logged("tips") /\ cln.clip_len = cln.cmd.tips[1] /\ cln.clip_len > 1
  /\ cln.clip_len # 0 =>
        cln.clip_len = (IF cln.cmd.tips # <<>> THEN cln.cmd.tips[1] ELSE 2 * cln.kmer_size)
  /\ (NeitherFlag /\ cln.cmd.out = "") =>
        /\ ~Logged("tips") /\ ~SnodesCleaning
        /\ ~Logged("write") /\ "out" \notin cln.created
  /\ Logged("write") => cln.cmd.out # ""

\* a completed run with neither flag and an output file that clipped tips
\* with the default length, cleaned supernodes and wrote the graph
C11_Witness ==
  /\ Completed /\ NeitherFlag /\ cln.cmd.out = "out.ctx"
  /\ cln.clip_len = 2 * cln.kmer_size /\ SnodesCleaning /\ Logged("write")

\* a completed run with neither flag and no output path (histogram only)
C11_NoCleaningReached ==
  Completed /\ NeitherFlag /\ cln.cmd.out = "" /\ Logged("len_before")
\* the cleaning the command line asks for, by the flags or by default
AsksTips == cln.cmd.tips # <<>> \/ (NeitherFlag /\ cln.cmd.out # "")
AsksSupernodes == cln.cmd.supernodes \/ (NeitherFlag /\ cln.cmd.out # "")
\* the input files do not all have one k-mer size
KmerSizesDiffer ==
  \E i, j \in 1..Len(cln.cmd.files) :
     cln.cmd.files[i].kmer_size # cln.cmd.files[j].kmer_size
\* an argument precondition is violated
ArgsViolated ==
  LET c == cln.cmd
  IN \/ c.tips # <<>> /\ c.tips[1] <= 1
     \/ c.threshold # <<>> /\ c.threshold[1] <= 1
     \/ c.kdepth # <<>> /\ c.kdepth[1] <= 1
     \/ c.threshold # <<>> /\ c.kdepth # <<>>
     \/ (c.threshold # <<>> \/ c.kdepth # <<>>) /\ ~AsksSupernodes
     \/ (AsksTips \/ AsksSupernodes) /\ c.out = ""
     \/ c.len_after /\ ~(AsksTips \/ AsksSupernodes)
     \/ c.out \notin {"", "-"} /\ cln.out_exists
     \/ Len(c.files) = 0
\* nothing was loaded, no pass ran, no output file was created or written
NoWorkDone == ~cln.loaded /\ cln.log = <<>> /\ cln.created = {} /\ cln.ginfo = <<>>

\* C12: validation precedes work.  When an argument precondition is
\* violated the run ends with the usage text while reading its arguments,
\* and when the input files differ in k-mer size it ends with the usage
\* text while opening them: in both cases before a k-mer is loaded, before a
\* pass runs and before an output file is created or written.  A run that
\* gets past these two stages violates none of them.
C12_ValidationFirst ==
  /\ (cln.at # "args" /\ ArgsViolated) => (cln.at = "usage" /\ NoWorkDone)
  /\ (cln.at \notin {"args", "open"} /\ KmerSizesDiffer) => (cln.at = "usage" /\ NoWorkDone)
  /\ cln.at \in {"args", "open"} => NoWorkDone

\* the run ended with the usage text because the two input files differ
\* in k-mer size, the arguments being in order
C12_Witness ==
  /\ cln.at = "usage" /\ ~ArgsViolated /\ KmerSizesDiffer
  /\ cln.cmd.out = "out.ctx" /\ cln.cmd.len_before

\* the run ended with the usage text because the --out file exists
C12_ExistingOutReached ==
  /\ cln.at = "usage" /\ cln.out_exists /\ cln.cmd.out = "out.ctx"
  /\ ~KmerSizesDiffer /\ cln.cmd.tips = <<4>> /\ cln.cmd.threshold = <<>>
\* the output graph was written
Written == Logged("write")
\* tip clipping ran in this run
TipsPerformed == cln.clip_len # 0
\* supernode cleaning ran in this run and came back with a threshold
SnodesPerformed == SnodesCleaning /\ cln.threshold # 0

\* C13: in the header of a written graph, for every output colour,
\* cleaned_tips is set iff it was set in the merged input info or tip
\* clipping ran, and cleaned_snodes is set iff it was set in the merged
\* input info or supernode cleaning ran with a non-zero threshold; a flag
\* set in the input is never cleared.
C13_FlagsReflectCleaning ==
  /\ Written =>
        /\ Len(cln.ginfo) = cln.total_cols /\ Len(cln.ginfo_in) = cln.total_cols
        /\ \A i \in 1..cln.total_cols :
              /\ cln.ginfo[i].cleaned_tips
                    = (cln.ginfo_in[i].cleaned_tips \/ TipsPerformed)
              /\ cln.ginfo[i].cleaned_snodes
                    = (cln.ginfo_in[i].cleaned_snodes \/ SnodesPerformed)
  /\ \A i \in 1..Len(cln.ginfo) :
        /\ cln.ginfo_in[i].cleaned_tips => cln.ginfo[i].cleaned_tips
        /\ cln.ginfo_in[i].cleaned_snodes => cln.ginfo[i].cleaned_snodes

\* a graph of two colours was written after supernode cleaning alone: one
\* colour came in with cleaned_tips set and keeps it, the other came in
\* with no flag and has cleaned_snodes only
C13_Witness ==
  /\ Written /\ cln.total_cols = 2 /\ ~TipsPerformed /\ SnodesPerformed
  /\ cln.ginfo_in[1].cleaned_tips /\ ~cln.ginfo_in[1].cleaned_snodes
  /\ ~cln.ginfo_in[2].cleaned_tips /\ ~cln.ginfo_in[2].cleaned_snodes
  /\ cln.ginfo[1].cleaned_tips /\ ~cln.ginfo[2].cleaned_tips
  /\ cln.ginfo[2].cleaned_snodes
\* supernode cleaning was asked for and came back with threshold 0
ThresholdZero == SnodesCleaning /\ cln.threshold = 0

C14_TipsOnlyWritten ==
  /\ Completed /\ ThresholdZero /\ TipsPerformed /\ Written
  /\ \E i \in 1..Len(cln.ginfo) :
        /\ ~cln.ginfo_in[i].cleaned_snodes /\ ~cln.ginfo_in[i].cleaned_tips
        /\ cln.ginfo[i].cleaned_tips /\ ~cln.ginfo[i].cleaned_snodes
\* the entries of the log that are passes over the graph
PassesRun == {i \in 1..Len(cln.log) : cln.log[i].pass # "write"}

\* C15: the visited array.  Every pass that uses it (length histogram
\* before, tip clipping, supernode thresholding / coverage dump, length
\* histogram after) starts with all its bits zero, whatever passes were
\* asked for; memset is called once before every pass but the first that
\* runs, and not before the first.
C15_VisitedProtocol ==
  /\ \A i \in PassesRun : cln.log[i].zero
  /\ cln.memsets = (IF PassesRun = {} THEN 0 ELSE Cardinality(PassesRun) - 1)
  /\ (cln.loaded /\ PassesRun = {}) => (cln.visited_zero /\ cln.visited0 = 0)
  /\ PassesRun # {} => cln.visited0 # 0

\* a completed run without a length histogram before: tip clipping is the
\* first pass, two passes follow it, memset was called twice
C15_Witness ==
  /\ Completed /\ cln.memsets = 2
  /\ [i \in 1..3 |-> cln.log[i].pass] = <<"tips", "supernodes", "len_after">>

\* a completed run in which all four passes ran
C15_AllPassesReached ==
  Completed /\ Cardinality(PassesRun) = 4 /\ cln.memsets = 3
RECURSIVE ColoursOfFirst(_)
\* the number of colours held by the first n input files
ColoursOfFirst(n) == IF n = 0 THEN 0 ELSE ColoursOfFirst(n - 1) + cln.cmd.files[n].ncols
NumFiles == Len(cln.cmd.files)
\* the output colours of file i
OutColours(i) == {cln.hdrcol[i][j] : j \in 1..Len(cln.hdrcol[i])}
\* the files were given their colours and loaded
ColoursAssigned == cln.loaded
\* the command line asks for cleaning, by the flags or by default
AsksCleaning == AsksTips \/ AsksSupernodes

\* with cleaning, file i's colours go to the consecutive output colours
\* that start at the number of colours of the files before it; the ranges
\* are disjoint and cover [0, total_cols), the size of the output header
SuccessiveRanges ==
  /\ \A i \in 1..NumFiles :
        cln.hdrcol[i] = [j \in 1..cln.cmd.files[i].ncols |-> ColoursOfFirst(i - 1) + j - 1]
  /\ \A i, k \in 1..NumFiles : i # k => OutColours(i) \cap OutColours(k) = {}
  /\ UNION {OutColours(i) : i \in 1..NumFiles} = 0..(cln.total_cols - 1)
  /\ Len(cln.ginfo) = cln.total_cols
  /\ cln.total_cols = ColoursOfFirst(NumFiles)
\* every colour of every file went into colour 0 of a graph of one colour
FlattenedIntoZero ==
  /\ cln.total_cols = 1 /\ cln.use_ncols = 1
  /\ \A i \in 1..NumFiles : \A j \in 1..cln.cmd.files[i].ncols :
        cln.loadcol[i][j] = 0 /\ cln.hdrcol[i][j] = 0

\* C16 (as claimed): when cleaning is performed the files' colours are
\* assigned successive disjoint ranges of output colours that cover
\* [0, total_cols), and the output header has total_cols colours; when no
\* cleaning is performed every file is flattened into colour 0.
C16_ColourRanges ==
  ColoursAssigned => (IF AsksCleaning THEN SuccessiveRanges ELSE FlattenedIntoZero)

\* What does hold of the colours: the ranges when cleaning is performed;
\* without cleaning every file is given intocol 0 in a graph and a header
\* of one colour, and the files of one colour go into colour 0.
C16_RangesWhenCleaning ==
  ColoursAssigned =>
    IF AsksCleaning THEN SuccessiveRanges
    ELSE /\ cln.total_cols = 1 /\ cln.use_ncols = 1
         /\ \A i \in 1..NumFiles :
               /\ cln.fltr[i].intocol = 0
               /\ cln.cmd.files[i].ncols = 1 => cln.loadcol[i] = <<0>> /\ cln.hdrcol[i] = <<0>>

\* two files of two colours each were loaded for cleaning: colours 0, 1 and 2, 3
C16_RangesReached ==
  /\ ColoursAssigned /\ AsksCleaning
  /\ cln.hdrcol = <<(<<0, 1>>), (<<2, 3>>)>>

\* without cleaning, a file of two colours was loaded into colours 0 and 1
C16_NotFlattenedReached ==
  /\ ColoursAssigned /\ ~AsksCleaning
  /\ \E i \in 1..NumFiles : cln.loadcol[i] = <<0, 1>>
\* the run ended in a fatal error
Failed == cln.at \in {"usage", "die"}

\* C17 (as claimed): when a clean run fails, none of its output paths
\* (--out, --covgs, --len-before, --len-after) has been created, truncated
\* or modified.
C17_FailureLeavesNothing == Failed => cln.created = {}

\* What does hold: a run that fails before the output paths are checked
\* (bad arguments, k-mer sizes that differ, the memory limit) has touched
\* none of them.
C17_EarlyFailureLeavesNothing ==
  (Failed /\ cln.created # {}) =>
     /\ cln.kmer_size # 0
     /\ cln.fltr # <<>>
     /\ cln.log = <<>>

\* the load failed after the output graph file and both histogram files
\* had been created
C17_LoadErrorReached ==
  /\ cln.at = "die" /\ ~cln.loaded
  /\ cln.created = {"out", "len_before", "len_after"}

\* the coverage path could not be written to after the output graph file
\* had been created
C17_UsageAfterCreateReached ==
  cln.at = "usage" /\ cln.created = {"out"} /\ cln.cmd.covgs
(***************************************************************************)
(* Properties of the hash table in a clean run                             *)
(***************************************************************************)
Occupied(ht) == {h \in 1..ht.capacity : ht.table[h] # Unset}

\* C18: the maintained k-mer counter.  In every state of a clean run
\* num_kmers equals the number of occupied slots, so the ctx_check at the
\* end of the run passes; each step changes the counter by +1 exactly when
\* a slot goes from empty to occupied and by -1 exactly when a node is
\* removed, and it never goes up in the cleaning passes.
C18_CounterNow ==
  /\ cln.ht.num_kmers = Cardinality(Occupied(cln.ht))
  /\ cln.last = "check" => cln.at = "exit"
  /\ cln.at \in {"check", "exit"} =>
        cln.removed_nkmers = cln.initial_nkmers - Cardinality(Occupied(cln.ht))

C18_KmerCounter ==
  /\ []C18_CounterNow
  /\ [][/\ cln'.ht.num_kmers - cln.ht.num_kmers
             = Cardinality(Occupied(cln'.ht) \ Occupied(cln.ht))
                 - Cardinality(Occupied(cln.ht) \ Occupied(cln'.ht))
         /\ (cln'.last = "inserted") = (Occupied(cln'.ht) \ Occupied(cln.ht) # {})
         /\ (cln'.last = "removed") = (Occupied(cln.ht) \ Occupied(cln'.ht) # {})
         /\ cln.at \in {"tips", "supernodes", "check"} =>
               cln'.ht.num_kmers <= cln.ht.num_kmers]_vars

\* a run that passed ctx_check after loading a k-mer twice (once as its
\* reverse complement), two k-mers that collide, and removing two nodes
C18_Witness ==
  /\ cln.at = "exit" /\ cln.nloads = 4 /\ cln.initial_nkmers = 3
  /\ cln.removed_nkmers = 2 /\ cln.ht.num_kmers = 1
(***************************************************************************)
(* Properties of packed paths                                              *)
(***************************************************************************)
\* C19: pack, shifted copy, unpack.  For every sequence seq of bases and
\* every shift <= |seq|, unpacking |seq| - shift bases from
\* packed_cpy(pack_bases(seq), shift, |seq|) gives seq from base shift on;
\* with shift 0 it gives seq.
C19_PackCpyUnpack ==
  (cln.test = "roundtrip" /\ cln.at = "done") =>
     /\ cln.bases2 = SubSeq(cln.seq, cln.shift + 1, Len(cln.seq))
     /\ cln.shift = 0 => unpack_bases(cln.packed, Len(cln.seq)) = cln.seq

\* the copy of C, A, G, A, C with shift 3 (within a byte, across the byte
\* boundary) unpacked to A, C
C19_Witness ==
  /\ cln.test = "roundtrip" /\ cln.at = "done"
  /\ cln.seq = <<1, 0, 2, 0, 1>> /\ cln.shift = 3 /\ cln.bases2 = <<0, 1>>

\* C20: packed_cpy writes inside its destination only.  Copying with
\* length 15 from the all-zero source to out + 1, out filled with 0xff,
\* leaves out[0] and out[5..99] at 0xff for every shift in 0..3, and after
\* the copy with shift 0 out[1..4] are 0, the unused bits of out[4] too.
C20_CpyFrame ==
  cln.test = "zeros" =>
     /\ cln.out[0] = 255
     /\ \A b \in 5..(OutBytes - 1) : cln.out[b] = 255
     /\ cln.shift >= 1 => \A b \in 1..4 : cln.out[b] = 0

\* all four copies were made
C20_Witness ==
  cln.test = "zeros" /\ cln.shift = 4 /\ cln.out[4] = 0 /\ cln.out[5] = 255


\* C21: the length and the orientation come back.  For every len below
\* 2^31 and every orient in {0, 1}, the word combined from them has the low
\* 31 bits of len and orient in bit 31, and packedpath_len and
\* packedpath_or of it are len and orient.
C21_LenOrientRoundTrip ==
  (cln.test = "lenorient" /\ cln.at = "done") =>
     /\ cln.len2 = cln.len /\ cln.orient2 = cln.orient
     /\ cln.merged = Word(cln.len) \cup (IF cln.orient = REVERSE THEN {31} ELSE {})

\* the longest length, 2^31 - 1, with the reverse orientation: all 32 bits set
C21_Witness ==
  /\ cln.test = "lenorient" /\ cln.at = "done"
  /\ cln.merged = 0..31 /\ cln.len2 = 2147483647 /\ cln.orient2 = REVERSE


(***************************************************************************)
(* Properties of the hash table in concurrent-insert mode                  *)
(***************************************************************************)
\* what the calls of all workers returned
Returned22 == UNION {{cln.thr[t].log[j] : j \in 1..Len(cln.thr[t].log)} : t \in 1..MaxThreads}
\* the slots that hold bkey
SlotsOf(bkey) == {h \in 1..cln.ht.capacity : cln.ht.table[h] = bkey}
\* the number of calls for bkey that reported inserted = true
InsertedCount(bkey) ==
  Cardinality({<<t, j>> \in (1..MaxThreads) \X (1..MaxInserts) :
                 /\ j <= Len(cln.thr[t].log)
                 /\ cln.thr[t].log[j].bkey = bkey /\ cln.thr[t].log[j].inserted})

\* C22: insertion is idempotent under every interleaving.  When all workers
\* have returned, each canonical k-mer inserted is in exactly one slot,
\* every call for it returned that slot, exactly one call reported
\* inserted = true, and num_kmers is the number of distinct canonical
\* k-mers.
C22_IdempotentInsert ==
  cln.at = "joined" =>
     LET keys == {r.bkey : r \in Returned22}
     IN /\ \A bkey \in keys :
             /\ Cardinality(SlotsOf(bkey)) = 1
             /\ \A r \in Returned22 : r.bkey = bkey => {r.hkey} = SlotsOf(bkey)
             /\ InsertedCount(bkey) = 1
        /\ cln.ht.num_kmers = Cardinality(keys)

\* what the interleavings keep: the counter is the number of occupied slots,
\* and every slot returned holds the canonical k-mer asked for
C22_CounterAndSlots ==
  /\ cln.ht.num_kmers = hash_table_count_kmers(cln.ht)
  /\ \A r \in Returned22 : cln.ht.table[r.hkey] = r.bkey /\ r.bkey = db_node_get_key(r.bkey)

\* two workers inserted the same k-mer and both were told inserted = true
C22_DuplicateReached ==
  /\ cln.at = "joined"
  /\ \E bkey \in {r.bkey : r \in Returned22} :
       Cardinality(SlotsOf(bkey)) = 2 /\ InsertedCount(bkey) = 2


(***************************************************************************)
(* Properties of the path store                                            *)
(***************************************************************************)
\* the (orient, len, bases) of the entry at an offset
TripleAt(off) == <<cln.arena[off].orient, cln.arena[off].len, cln.arena[off].bases>>
\* the (orient, len, bases) of an append
TripleOf(a) == <<a.orient, Len(a.bases), a.bases>>
\* the offsets of the chain of a node
IterSet(n) == {path_store_iter(cln, n)[j] : j \in 1..Len(path_store_iter(cln, n))}

\* C23: the chain of a node holds what was appended to it.  While no two
\* appends have overlapped, the chain of every node has exactly one entry
\* per distinct (orient, len, bases) appended to that node, its colours the
\* union of the colours of the appends of that triple to that node.
C23_ChainConsistency ==
  ~cln.overlap =>
     \A n \in 1..2 :
        LET mine == {a \in cln.appended : a.hkey = n}
        IN /\ -1 \notin IterSet(n)
           /\ Len(path_store_iter(cln, n)) = Cardinality({TripleOf(a) : a \in mine})
           /\ {TripleAt(off) : off \in IterSet(n)} = {TripleOf(a) : a \in mine}
           /\ \A off \in IterSet(n) :
                 cln.arena[off].cols = {a.col : a \in {b \in mine : TripleOf(b) = TripleAt(off)}}

\* (FORWARD, ACG) appended to node 1 in colour 0 and in colour 2 and another
\* path to node 2, one after the other: node 1 has one entry, colours 0 and 2
C23_Witness ==
  /\ ~cln.overlap /\ \A t \in Writers : cln.thr[t].at = "idle"
  /\ Cardinality(cln.appended) = 3
  /\ Len(path_store_iter(cln, 1)) = 1 /\ Len(path_store_iter(cln, 2)) = 1
  /\ \A off \in IterSet(1) :
        cln.arena[off].cols = {0, 2} /\ TripleAt(off) = <<FORWARD, 3, <<0, 1, 2>>>>

\* C24: concurrent appends and readers.  In every state of every
\* interleaving: reservations are disjoint and inside the arena; the chain
\* of a node ends at the null sentinel without a cycle and is in the
\* reverse of the order in which the compare-and-swaps succeeded; what a
\* reader reaches from a head was written before the head was swapped and
\* has kept its link and its path since (its colours may have grown); the
\* path and colour of every append that has returned is in the chain.
C24_ConcurrentAppend ==
  /\ cln.used <= ArenaBytes
  /\ \A o1 \in DOMAIN cln.arena :
        /\ o1 + cln.arena[o1].size <= cln.used
        /\ \A o2 \in DOMAIN cln.arena :
              o1 < o2 => o1 + cln.arena[o1].size <= o2
  /\ \A n \in 1..2 :
        /\ path_store_iter(cln, n) = Reverse(cln.order[n])
        /\ Cardinality(IterSet(n)) = Len(path_store_iter(cln, n))
        /\ \A off \in IterSet(n) :
              /\ off \in DOMAIN cln.pub /\ cln.pub[off].written
              /\ cln.arena[off].written
              /\ cln.arena[off].prev = cln.pub[off].prev
              /\ TripleAt(off) = <<cln.pub[off].orient, cln.pub[off].len, cln.pub[off].bases>>
              /\ cln.pub[off].cols \subseteq cln.arena[off].cols
        /\ \A a \in cln.appended :
              a.hkey = n => \E off \in IterSet(n) :
                               TripleAt(off) = TripleOf(a) /\ a.col \in cln.arena[off].cols

\* two writers have appended two paths each at overlapping times, three
\* entries are in the chain of node 1
C24_Witness ==
  /\ cln.overlap /\ \A t \in Writers : cln.thr[t].at = "idle" /\ cln.thr[t].cnt = 2
  /\ Len(path_store_iter(cln, 1)) = 3

\* a writer has lost the compare-and-swap of the head and walks the chain again
C24_LostCasReached ==
  \E t \in Writers :
     /\ cln.thr[t].at = "scan" /\ cln.thr[t].mine # PATH_NULL
     /\ cln.heads[cln.thr[t].hkey] # cln.thr[t].seen


AfterS1 ==
  /\ cln.g0 = [n |-> 3, edges |-> {<<1, 2>>, <<2, 3>>}]
  /\ cln.at = "tips" /\ cln.pass = 2 /\ cln.visited = {}

Turns(hist) ==
  {c \in 2..(Len(hist) - 1) : hist[c - 1] > hist[c] /\ hist[c] <= hist[c + 1]}

\* C27: the inferred threshold.  It is the smallest c >= 2 at which the
\* histogram goes from decreasing to non-decreasing and 0 when there is no
\* such c; for hist[1..7] = 20, 5, 2, 1, 0, 0, 1 and 1 after it is 5; the
\* supernodes of mean coverage below a threshold > 0 are removed (the one
\* of coverage 1 or 4, not the one of coverage 40 with threshold 5), the
\* others and, with threshold 0, all of them stay.
C27_AutoThreshold ==
  cln.at = "cleaned" =>
     /\ IF Turns(cln.hist) = {} THEN cln.threshold = 0
        ELSE /\ cln.threshold \in Turns(cln.hist)
             /\ \A c \in Turns(cln.hist) : cln.threshold <= c
     /\ cln.hist = <<20, 5, 2, 1, 0, 0, 1, 1, 1>> =>
           cln.threshold = 5 /\ cln.snodes \subseteq {40}
     /\ \A m \in cln.snodes : cln.threshold = 0 \/ m >= cln.threshold
     /\ cln.threshold = 0 => cln.snodes \in SUBSET {1, 4, 40} /\ ~cln.supernode_cleaning

\* scenario S2: of the supernodes of coverage 1 and 40 the one of coverage
\* 40 is left, the threshold is 5
C27_Witness ==
  /\ cln.at = "cleaned" /\ cln.hist = <<20, 5, 2, 1, 0, 0, 1, 1, 1>>
  /\ cln.threshold = 5 /\ cln.snodes = {40}

\* a histogram that never turns: threshold 0, nothing removed
C27_NoTurnReached ==
  /\ cln.at = "cleaned" /\ Turns(cln.hist) = {} /\ cln.threshold = 0
  /\ cln.snodes = {1, 4, 40}


(***************************************************************************)
(* Properties of the growth of the path pool                               *)
(***************************************************************************)
\* the pool has grown over a step
Grew == wlk'.max_num_paths # wlk.max_num_paths \/ wlk'.max_path_len # wlk.max_path_len

\* resize_paths called as pickup_paths calls it for a path of len bases:
\* the two sizes grow as they should, the listed paths keep record, place
\* and content, the unused records stay and the new records join them
ResizeKeeps(w, len) ==
  LET w1 == resize_paths(w, len)
      fresh == w.max_num_paths..(w1.max_num_paths - 1)
  IN /\ w1.max_num_paths =
          IF w.num_unused = 0 THEN 2 * w.max_num_paths ELSE w.max_num_paths
     /\ IF len > w.max_path_len
        THEN w1.max_path_len >= len /\ \E k \in 0..5 : w1.max_path_len = 2 ^ k
        ELSE w1.max_path_len = w.max_path_len
     /\ w1.num_curr = w.num_curr /\ w1.num_new = w.num_new
     /\ w1.num_counter = w.num_counter
     /\ \A i \in 0..(w.num_curr + w.num_new - 1) : w1.curr_paths[i] = w.curr_paths[i]
     /\ \A i \in 0..(w.num_counter - 1) : w1.counter_paths[i] = w.counter_paths[i]
     /\ CurrPathsOf(w1) = CurrPathsOf(w)
     /\ NewPathsOf(w1) = NewPathsOf(w)
     /\ CounterPathsOf(w1) = CounterPathsOf(w)
     /\ \A i \in 0..(w.num_unused - 1) : w1.unused_paths[i] = w.unused_paths[i]
     /\ w1.num_unused = w.num_unused + Cardinality(fresh)
     /\ {w1.unused_paths[i] : i \in w.num_unused..(w1.num_unused - 1)} = fresh

\* C28: growth of the pool keeps the live state.  The pool grows only in a
\* call that picks paths up (init, a forced move, a traversal step that
\* moves, the adding of counter paths); resize_paths, called for a path longer than
\* max_path_len or with no unused record left, doubles max_num_paths
\* exactly when no record is unused and raises max_path_len to a power of
\* two >= the length exactly when the length exceeds it; every current,
\* new and counter path keeps bases[0..len), pos, len and its place in its
\* list, the unused records stay unused and the new records are all added
\* to the unused ones.  Over a whole call that grew the pool the paths held
\* before it are found unchanged in front of the ones picked up.
C28_GrowthKeepsPaths ==
  /\ [](pc = "active" =>
          \A len \in 1..5 :
             (len > wlk.max_path_len \/ wlk.num_unused = 0) => ResizeKeeps(wlk, len))
  /\ [][Grew =>
          /\ ret'.op \in {"init", "jump", "add_counter", "traverse", "traverse_nodes"}
          /\ wlk'.max_num_paths >= wlk.max_num_paths
          /\ wlk'.max_path_len >= wlk.max_path_len
          /\ ret'.op = "add_counter" =>
                /\ CurrPathsOf(wlk') = CurrPathsOf(wlk)
                /\ NewPathsOf(wlk') = NewPathsOf(wlk)
                /\ SubSeq(CounterPathsOf(wlk'), 1, wlk.num_counter) = CounterPathsOf(wlk)
          /\ (ret'.op = "jump" /\ ~ret'.fork) =>
                /\ CurrPathsOf(wlk') = CurrPathsOf(wlk) \o NewPathsOf(wlk)
                /\ CounterPathsOf(wlk') = CounterPathsOf(wlk)]_vars

\* the pool has grown in both directions and paths picked up before the
\* growth are still held
C28_Witness ==
  /\ pc = "active" /\ wlk.max_num_paths = 4 /\ wlk.max_path_len = 4
  /\ wlk.num_curr + wlk.num_new + wlk.num_counter >= 3
  /\ wlk.num_unused = 0

\* a call is about to double the pool while its rows get longer
C28_BothGrowReached ==
  /\ pc = "active" /\ wlk.num_unused = 0 /\ wlk.max_path_len = 2
  /\ wlk.num_curr + wlk.num_new + wlk.num_counter = 2


(***************************************************************************)
(* Properties of the supernode threshold in the written header             *)
(***************************************************************************)
\* C29: the threshold written to the header.  After supernode cleaning
\* with threshold T > 0 the header of a written graph holds, for every
\* colour, T if cleaned_snodes was unset in the merged input info of the
\* colour (whatever threshold was stored there) and min(stored threshold,
\* T) if it was set.
C29_HeaderThreshold ==
  (Written /\ SnodesPerformed) =>
     \A i \in 1..Len(cln.ginfo) :
        cln.ginfo[i].clean_snodes_thresh =
           IF cln.ginfo_in[i].cleaned_snodes
           THEN MIN2(cln.ginfo_in[i].clean_snodes_thresh, cln.threshold)
           ELSE cln.threshold

\* what lines 370-376 do: cleaned_snodes is set before it is tested, so
\* the minimum is taken for every colour
C29_AlwaysMin ==
  (Written /\ SnodesPerformed) =>
     \A i \in 1..Len(cln.ginfo) :
        cln.ginfo[i].clean_snodes_thresh =
           MIN2(cln.ginfo_in[i].clean_snodes_thresh, cln.threshold)

\* a colour never supernode-cleaned, stored threshold 0, is written with
\* threshold 0 after cleaning with threshold 7
C29_ZeroWritten ==
  /\ Written /\ SnodesPerformed /\ cln.threshold = 7
  /\ ~cln.ginfo_in[1].cleaned_snodes /\ cln.ginfo_in[1].clean_snodes_thresh = 0
  /\ cln.ginfo[1].clean_snodes_thresh = 0


(***************************************************************************)
(* Properties of a traversal step                                          *)
(***************************************************************************)
\* the step is a graph_traverse_nodes call (made directly or by
\* graph_traverse) that returned true
Traversed == nops' = nops + 1 /\ ret'.op \in {"traverse", "traverse_nodes"} /\ ret'.ok

\* C30: a successful step of graph_traverse_nodes moves path positions
\* exactly when it crosses a fork.  With more than one next node supplied,
\* counted before the restriction to the colour of the walker, the current
\* paths followed by the new paths, and the counter paths, are filtered by
\* the nucleotide taken and every survivor has its pos raised by one; with
\* exactly one next node supplied every path held stays, in its place (the
\* new paths behind the current ones), with its pos.
C30_ForkAdvancesPaths ==
  [][Traversed =>
       LET b == ret'.next[ret'.indx + 1].base
           sc == Survivors(wlk, CurrNewRecsOf(wlk), b)
           sk == Survivors(wlk, CounterRecsOf(wlk), b)
           kept == CurrNewRecsOf(wlk)
           Aged(p) == PathOf(wlk', p) = [PathOf(wlk, p) EXCEPT !.pos = @ + 1]
       IN IF Len(ret'.next) > 1
          THEN /\ wlk'.num_curr = Len(sc)
               /\ \A i \in 1..Len(sc) : wlk'.curr_paths[i - 1] = sc[i] /\ Aged(sc[i])
               /\ wlk'.num_counter = Len(sk)
               /\ \A i \in 1..Len(sk) : wlk'.counter_paths[i - 1] = sk[i] /\ Aged(sk[i])
               /\ \A i \in 1..wlk'.num_new : NewPathsOf(wlk')[i].pos = 0
          ELSE /\ Len(ret'.next) = 1
               /\ wlk'.num_curr = Len(kept)
               /\ \A i \in 1..Len(kept) :
                     /\ wlk'.curr_paths[i - 1] = kept[i]
                     /\ PathOf(wlk', kept[i]) = PathOf(wlk, kept[i])
               /\ CounterRecsOf(wlk') = CounterRecsOf(wlk)
               /\ CounterPathsOf(wlk') = CounterPathsOf(wlk)]_vars

\* two next nodes were supplied to a walker of colour 1, one of them in
\* colour 1: the step was taken as a fork and paths held before it were
\* filtered out
C30_Witness ==
  /\ ret.op = "traverse_nodes" /\ ret.ok /\ Len(ret.next) = 2
  /\ wlk.colour = 1
  /\ Cardinality({i \in 1..2 : db_node_has_col(ret.next[i].node, 1)}) = 1
  /\ ret.held >= 1
  /\ wlk.num_curr + wlk.num_counter < ret.held

\* a fork was crossed and a path survived it, one position on
C30_SurvivorReached ==
  /\ ret.op \in {"traverse", "traverse_nodes"} /\ ret.ok /\ Len(ret.next) > 1
  /\ wlk.num_curr >= 1 /\ wlk.allpaths[wlk.curr_paths[0]].pos >= 1

\* a step with one next node supplied was taken by a walker that holds paths
C30_PlainStepReached ==
  /\ ret.op \in {"traverse", "traverse_nodes"} /\ ret.ok /\ Len(ret.next) = 1
  /\ ret.held >= 1 /\ wlk.num_curr + wlk.num_counter = ret.held


(***************************************************************************)
(* Invariants of the walker                                                *)
(***************************************************************************)
\* pos of the path in slot i of curr_paths
PosAt(i) == wlk.allpaths[wlk.curr_paths[i]].pos

\* C31: the age ordering graph_walker_choose relies on.  Once the walker is
\* initialised, after any forced moves, traversal steps, additions of
\* counter paths and growth of the pool, pos does not increase along
\* curr_paths[0 .. num_curr + num_new): curr_paths[0] has the greatest pos
\* of the current paths and the current paths of that pos are the first
\* ones of the list.
C31_AgeOrdering ==
  pc = "active" =>
     /\ \A i, j \in 0..(wlk.num_curr + wlk.num_new - 1) :
           i < j => PosAt(i) >= PosAt(j)
     /\ \A i \in 0..(wlk.num_curr - 1) :
           /\ PosAt(0) >= PosAt(i)
           /\ PosAt(i) = PosAt(0) => \A j \in 0..i : PosAt(j) = PosAt(0)

\* current paths of two ages and a new path are held after a fork, and
\* the pool has grown on the way
C31_Witness ==
  /\ pc = "active" /\ wlk.num_curr >= 2 /\ wlk.num_new >= 1
  /\ PosAt(0) > PosAt(wlk.num_curr - 1)
  /\ wlk.max_num_paths > 2


\* the records held in the three lists
HeldRecs ==
  {wlk.curr_paths[i] : i \in 0..(wlk.num_curr + wlk.num_new - 1)}
     \cup {wlk.counter_paths[i] : i \in 0..(wlk.num_counter - 1)}

\* C32: the position bound.  Every entry of the path store has at least
\* one base; then in every state of an initialised walker every current,
\* new and counter path has 0 <= pos < len <= max_path_len, so that
\* bases[pos], read by graph_walker_choose and by the fork filter, is a
\* base of the path.
C32_PositionBound ==
  (/\ \A x \in DOMAIN PathEntries : path_store_len(x) >= 1
   /\ pc # "alloc") =>
     \A p \in HeldRecs :
        /\ p \in 0..(wlk.max_num_paths - 1)
        /\ 0 <= wlk.allpaths[p].pos
        /\ wlk.allpaths[p].pos < wlk.allpaths[p].len
        /\ wlk.allpaths[p].len <= wlk.max_path_len
        /\ NextBase(wlk, p) \in Nucleotide

\* a current path stands on its last base after a fork, a counter path
\* was aged when it was picked up, and the rows have been made longer
C32_Witness ==
  /\ pc = "active" /\ wlk.max_path_len = 4
  /\ \E i \in 0..(wlk.num_curr - 1) :
        /\ wlk.allpaths[wlk.curr_paths[i]].pos >= 1
        /\ wlk.allpaths[wlk.curr_paths[i]].pos + 1 = wlk.allpaths[wlk.curr_paths[i]].len
  /\ \E i \in 0..(wlk.num_counter - 1) : wlk.allpaths[wlk.counter_paths[i]].pos = 1


\* the step is a graph_traverse or graph_traverse_nodes call that returned
\* false
FailedStep == nops' = nops + 1 /\ ret'.op \in {"traverse", "traverse_nodes"} /\ ~ret'.ok

\* C33: a failed traversal step changes nothing.  When graph_traverse or
\* graph_traverse_nodes returns false the walker has the node, bkmer,
\* orientation and colour it had, the same records in the same order in
\* the current, new, counter and unused lists, and every path its pos, len
\* and bases.
C33_FailedStepKeeps ==
  [][FailedStep =>
       /\ wlk'.node = wlk.node /\ wlk'.bkmer = wlk.bkmer
       /\ wlk'.orient = wlk.orient /\ wlk'.colour = wlk.colour
       /\ wlk'.num_curr = wlk.num_curr /\ wlk'.num_new = wlk.num_new
       /\ wlk'.num_counter = wlk.num_counter /\ wlk'.num_unused = wlk.num_unused
       /\ CurrNewRecsOf(wlk') = CurrNewRecsOf(wlk)
       /\ CounterRecsOf(wlk') = CounterRecsOf(wlk)
       /\ UnusedRecsOf(wlk') = UnusedRecsOf(wlk)
       /\ CurrPathsOf(wlk') = CurrPathsOf(wlk)
       /\ NewPathsOf(wlk') = NewPathsOf(wlk)
       /\ CounterPathsOf(wlk') = CounterPathsOf(wlk)
       /\ wlk'.allpaths = wlk.allpaths /\ wlk'.data = wlk.data
       /\ wlk'.max_num_paths = wlk.max_num_paths
       /\ wlk'.max_path_len = wlk.max_path_len]_vars

\* graph_traverse_nodes returned false at a fork to a walker that holds
\* current and new paths
C33_Witness ==
  /\ ret.op = "traverse_nodes" /\ ~ret.ok /\ Len(ret.next) >= 2
  /\ wlk.num_curr >= 1 /\ wlk.num_new >= 1

\* the same to a walker that holds new and counter paths
C33_CounterHeldReached ==
  /\ ret.op = "traverse_nodes" /\ ~ret.ok /\ Len(ret.next) >= 2
  /\ wlk.num_new >= 1 /\ wlk.num_counter >= 1

\* graph_traverse returned false at the fork of the graph to a walker that
\* holds a new path
C33_TraverseFailedReached ==
  /\ ret.op = "traverse" /\ ~ret.ok /\ Len(ret.next) = 4 /\ wlk.num_new >= 1


(***************************************************************************)
(* graph_walker_init on a walker that graph_walker_finish was not called   *)
(* on: the asserts of graph_walker_init, num_curr == 0 and                 *)
(* num_counter == 0, are all that stands before the call.                  *)
(***************************************************************************)
\* the walker as lines 211-222 leave it: the counts are reset, num_unused
\* is set to max_num_paths, the arrays are taken as they are
graph_walker_init_reset(w, colour, node, orient) ==
  [w EXCEPT !.colour = colour, !.node = node, !.orient = orient,
            !.num_unused = w.max_num_paths,
            !.num_curr = 0, !.num_new = 0, !.num_counter = 0,
            !.bkmer = db_graph_oriented_bkmer(node, orient)]

\* graph_walker_init called again while the walker is in use and the two
\* asserts pass.  The pick-up takes its records from the top of
\* unused_paths[0 .. max_num_paths); when one of them was never written
\* the read is of an uninitialised pointer and the run is not followed
\* further.
WalkerReinit(colour, node, orient) ==
  /\ pc = "active"
  /\ Settled
  /\ nops < MaxOps
  /\ wlk.num_curr = 0 /\ wlk.num_counter = 0
  /\ nops' = nops + 1
  /\ LET gw == graph_walker_init_reset(wlk, colour, node, orient)
         n == Len(Matching(node, orient, colour))
         taken == {gw.unused_paths[i] :
                     i \in {j \in 0..(gw.max_num_paths - 1) : j >= gw.max_num_paths - n}}
     IN IF Garbage \in taken
        THEN wlk' = gw /\ pc' = "undefined"
        ELSE LET w == graph_walker_init(wlk, colour, node, orient)
             IN /\ w.max_num_paths <= MaxNumPaths
                /\ wlk' = w
                /\ pc' = "reinit"
  /\ ret' = [op |-> "reinit", was_new |-> wlk.num_new,
             unused |-> [i \in 1..wlk.max_num_paths |-> wlk.unused_paths[i - 1]]]
  /\ UNCHANGED <<mid, cln>>

NextReinit ==
  \/ Next
  \/ \E c \in Colours, n \in WalkNodes, o \in Orientation : WalkerReinit(c, n, o)

SpecReinit == Init /\ [][NextReinit]_vars

(***************************************************************************)
(* Properties of graph_walker_init without graph_walker_finish             *)
(***************************************************************************)
\* C34: the check of graph_walker_init is enough for the pool.  Whenever
\* graph_walker_init is called on a walker with num_curr = 0 and
\* num_counter = 0, also when graph_walker_finish was not called and new
\* paths are still held, the entries unused_paths[0 .. max_num_paths) it
\* declares unused are max_num_paths different records of the pool, and
\* after the call no record is held twice.
C34_InitCheckSuffices ==
  ret.op = "reinit" =>
     /\ RangeOf(ret.unused) = 0..(Len(ret.unused) - 1)
     /\ pc = "reinit"
     /\ Partitioned(wlk)

\* what holds: called with no path held at all (num_new = 0 too),
\* graph_walker_init finds a whole pool and leaves every record in one list
C34_WholeWhenNoneHeld ==
  (ret.op = "reinit" /\ ret.was_new = 0) =>
     /\ RangeOf(ret.unused) = 0..(Len(ret.unused) - 1)
     /\ pc = "reinit"
     /\ Partitioned(wlk)

\* graph_walker_init was called while three new paths were held in a pool
\* grown to four records: two of the four entries it declares unused were
\* never written
C34_BrokenPoolReached ==
  /\ ret.op = "reinit" /\ ret.was_new = 3 /\ Len(ret.unused) = 4
  /\ Cardinality({i \in 1..4 : ret.unused[i] = Garbage}) = 2

\* the call went through, with a whole pool, while new paths were held
C34_WholeReached ==
  /\ ret.op = "reinit" /\ pc = "reinit" /\ ret.was_new >= 1
  /\ RangeOf(ret.unused) = 0..(Len(ret.unused) - 1)
  /\ Partitioned(wlk)

====
